---- MODULE Spec2Model ----
(***************************************************************************)
(* Model of the expected-cost estimator of maple_price_bot                 *)
(* (src/pricing_engine.py): the Star Force probability table, the dense    *)
(* Gauss-Jordan solver and expected_star_cost, over the price store the    *)
(* estimator reads.                                                        *)
(*                                                                         *)
(* Numbers.  The program computes in IEEE doubles.  The model holds a      *)
(* number as an exact rational [num, den] (den > 0, lowest terms).  With   *)
(* mant = 0 every operation is exact, so every equality is one of exact    *)
(* values.  With mant > 0 the solver rounds the result of each operation   *)
(* to the nearest binary float of mant mantissa bits, ties to even, as a   *)
(* double does with 53 bits.                                               *)
(* Probabilities of the table are held as integers in units of 1/Scale.    *)
(***************************************************************************)
EXTENDS Integers, Sequences, FiniteSets, TLC

VARIABLES
    db,           \* the price store: [stats, hist]
    pc,           \* position of the running call
    caller,       \* "star": solver called by expected_star_cost; "direct"
    mant,         \* mantissa bits of the floats the solver computes in; 0: exact
    target_star,  \* argument target_star (T after int())
    start_star,   \* argument start_star
    prices,       \* local: level -> price, as loaded
    A,            \* local: coefficient matrix, rows and columns 0..n-1
    b,            \* local: right-hand side, 0..n-1
    s,            \* local: loop index of the row-building loop
    n,            \* local of solve_linear_system: len(A)
    M,            \* local of solve_linear_system: augmented matrix
    col,          \* local of solve_linear_system: current column
    E,            \* local: solver's return value
    outcome,      \* what the call returned or raised
    cube,         \* the price store's cube rows: [stats, hist]
    main_target_tier,   \* argument of expected_potential_cost_dual
    main_start_tier,    \* argument
    bonus_target_tier,  \* argument, None when not supplied
    bonus_start_tier,   \* argument
    price_red,    \* local: load_cube_price of the red cube, NoFloat for None
    price_black,  \* local: the same for the black cube
    price_bonus,  \* local: the same for the bonus cube
    main_cost,    \* local: NoFloat for None
    main_breakdown,     \* local: NoBreakdown for None
    total,        \* locals of App._on_estimate: [star_cost, total, parts]
    probs,        \* the module's STAR_PROBS list, as the running call reads it
    odds,         \* the module's POTENTIAL_ODDS dict, as the running call reads it
    first,        \* history: an earlier call, its table and outcome, NoCall if none
    dynamic_pricing,    \* the rows of table dynamic_pricing, in insertion order
    price_stats,  \* the rows of table price_stats, by primary key
    timeframe,    \* argument timeframe of the running call
    script,       \* the file whose scrape_one_interval runs: "scraper" or "test"
    max_read_tries,     \* argument of scrape_one_interval
    reload_on_try,      \* argument of scrape_one_interval
    at,           \* position of scrape_one_interval under its retry decorator
    tries,        \* the decorator's attempt number
    attempt,      \* local: the loop variable of the read loop
    last_vals,    \* local: the four values to return
    reads,        \* history: what extract_four_tiles returned, this attempt
    reloads,      \* history: the reads after which the page was reloaded
    threads,      \* the scheduler threads App has started; sched_thread is the last
    sched_stop,   \* App.sched_stop, the Event: TRUE when set
    btn_sched_start,    \* state of the start button
    btn_sched_stop,     \* state of the stop button
    s_log,        \* the last line written to the schedule log
    messagebox,   \* the last message box shown by the start handler
    jobs          \* the run-once threads alive

\* The variables of expected_star_cost and solve_linear_system.
starvars == <<db, mant, target_star, start_star, prices, A, b, s, n, M, col, E>>

\* The variables of expected_potential_cost_dual and of its caller.
potvars == <<cube, main_target_tier, main_start_tier, bonus_target_tier, bonus_start_tier,
             price_red, price_black, price_bonus, main_cost, main_breakdown, total>>

\* The two tables of the database file.
dbvars == <<dynamic_pricing, price_stats, timeframe>>

\* What lies outside the estimators: the database, the scraper, the scheduler.
scrapevars == <<script, max_read_tries, reload_on_try, at, tries, attempt, last_vals,
                reads, reloads>>

schedvars == <<threads, sched_stop, btn_sched_start, btn_sched_stop, s_log, messagebox, jobs>>

envvars == <<dbvars, scrapevars, schedvars>>

\* The module's tables and the remembered call.
auxvars == <<probs, odds, first, envvars>>

vars == <<pc, caller, outcome, starvars, potvars, auxvars>>

----------------------------------------------------------------------------
(* Bounds of the model *)

\* Levels 0..MaxLevel-1 are the levels the price store may hold a price for.
MaxLevel == 3
\* Stored prices are the integers 1..MaxPrice.
MaxPrice == 2
\* Directly solved systems have dimension 1..MaxDim.
MaxDim == 2

----------------------------------------------------------------------------
(* Exact rational arithmetic standing for the program's float arithmetic *)

Abs(v) == IF v < 0 THEN -v ELSE v

RECURSIVE GCD(_, _)
GCD(u, v) == IF v = 0 THEN u ELSE GCD(v, u % v)

\* The rational u/v in lowest terms with a positive denominator.
Rat(u, v) ==
    LET g   == GCD(Abs(u), Abs(v))
        sgn == IF v < 0 THEN -1 ELSE 1
    IN  [num |-> sgn * (u \div g), den |-> sgn * (v \div g)]

RInt(v) == [num |-> v, den |-> 1]

Zero == RInt(0)

One == RInt(1)

RNeg(p) == [num |-> -p.num, den |-> p.den]

RAdd(p, q) ==
    LET g == GCD(p.den, q.den)
    IN  Rat(p.num * (q.den \div g) + q.num * (p.den \div g), (p.den \div g) * q.den)

RSub(p, q) == RAdd(p, RNeg(q))

RMul(p, q) ==
    LET g1 == GCD(Abs(p.num), q.den)
        g2 == GCD(Abs(q.num), p.den)
    IN  Rat((p.num \div g1) * (q.num \div g2), (p.den \div g2) * (q.den \div g1))

\* p / q for q # 0
RDiv(p, q) ==
    RMul(p, IF q.num < 0 THEN [num |-> -q.den, den |-> -q.num] ELSE [num |-> q.den, den |-> q.num])

RAbs(p) == [num |-> Abs(p.num), den |-> p.den]

RLess(p, q) == p.num * q.den < q.num * p.den

\* The lesser of two rationals.
RMin(p, q) == IF RLess(q, p) THEN q ELSE p

\* The greater of two rationals.
RMax(p, q) == IF RLess(p, q) THEN q ELSE p

\* float("inf")
Inf == [num |-> 1, den |-> 0]

\* None, where a float is expected
NoFloat == [num |-> 0, den |-> 0]

----------------------------------------------------------------------------
(* Rounding of a float operation *)

RECURSIVE Pow2(_)
Pow2(k) == IF k = 0 THEN 1 ELSE 2 * Pow2(k - 1)

\* a = m * 2^e with 2^(p-1) <= m < 2^p, for a rational a > 0
RECURSIVE Frexp(_, _, _)
Frexp(a, p, e) ==
    IF ~RLess(a, RInt(Pow2(p))) THEN Frexp(RMul(a, Rat(1, 2)), p, e + 1)
    ELSE IF RLess(a, RInt(Pow2(p - 1))) THEN Frexp(RMul(a, RInt(2)), p, e - 1)
    ELSE [m |-> a, e |-> e]

\* The float of p mantissa bits nearest to q, ties to the even mantissa.
Round(q, p) ==
    IF q.num = 0 THEN q
    ELSE LET f    == Frexp(RAbs(q), p, 0)
             fl   == f.m.num \div f.m.den
             rem2 == 2 * (f.m.num % f.m.den)
             m    == IF rem2 > f.m.den \/ (rem2 = f.m.den /\ fl % 2 = 1)
                     THEN fl + 1 ELSE fl
             sgn  == IF q.num < 0 THEN -1 ELSE 1
         IN  IF f.e >= 0 THEN RInt(sgn * m * Pow2(f.e))
             ELSE Rat(sgn * m, Pow2(-f.e))

\* The value a float operation stores, its exact result being q.
Fl(q) == IF mant = 0 THEN q ELSE Round(q, mant)

----------------------------------------------------------------------------
(* The probability table *)

\* One unit of the table's decimals: every entry has four decimal places.
Scale == 10000

\* STAR_PROBS, entry i+1 of the sequence being STAR_PROBS[i] (step i -> i+1),
\* in units of 1/Scale.
STAR_PROBS == <<
    [succ |-> 9975, keep |->   25, drop |->    0, boom |->    0],
    [succ |-> 9450, keep |->  550, drop |->    0, boom |->    0],
    [succ |-> 8925, keep |-> 1075, drop |->    0, boom |->    0],
    [succ |-> 8925, keep |-> 1075, drop |->    0, boom |->    0],
    [succ |-> 8400, keep |-> 1600, drop |->    0, boom |->    0],
    [succ |-> 7875, keep |-> 2125, drop |->    0, boom |->    0],
    [succ |-> 7350, keep |-> 2650, drop |->    0, boom |->    0],
    [succ |-> 6825, keep |-> 3175, drop |->    0, boom |->    0],
    [succ |-> 6300, keep |-> 3700, drop |->    0, boom |->    0],
    [succ |-> 5775, keep |-> 4225, drop |->    0, boom |->    0],
    [succ |-> 5250, keep |-> 4750, drop |->    0, boom |->    0],
    [succ |-> 4725, keep |->    0, drop |-> 5275, boom |->    0],
    [succ |-> 4200, keep |->    0, drop |-> 5742, boom |->   58],
    [succ |-> 3675, keep |->    0, drop |-> 6198, boom |->  126],
    [succ |-> 3150, keep |->    0, drop |-> 6713, boom |->  137],
    [succ |-> 3150, keep |-> 6644, drop |->    0, boom |->  206],
    [succ |-> 3150, keep |->    0, drop |-> 6644, boom |->  206],
    [succ |-> 3150, keep |->    0, drop |-> 6644, boom |->  206],
    [succ |-> 3150, keep |->    0, drop |-> 6576, boom |->  274],
    [succ |-> 3150, keep |->    0, drop |-> 6576, boom |->  274],
    [succ |-> 3150, keep |-> 6165, drop |->    0, boom |->  685],
    [succ |-> 3150, keep |->    0, drop |-> 6165, boom |->  685],
    [succ |->  315, keep |->    0, drop |-> 7748, boom |-> 1937],
    [succ |->  210, keep |->    0, drop |-> 6853, boom |-> 2937],
    [succ |->  105, keep |->    0, drop |-> 5937, boom |-> 3958] >>

\* None, where dict.get finds no key
NoProb == -1

\* _p: None becomes 0.0
_p(v) == IF v = NoProb THEN 0 ELSE v

\* prob.get(key)
Get(prob, key) == IF key \in DOMAIN prob THEN prob[key] ELSE NoProb

\* P reading the table one entry too far (a 1-based index into a 0-based table).
P_Shifted(i) ==
    IF i < 0 \/ i + 1 >= Len(STAR_PROBS)
    THEN [succ |-> 0, keep |-> 0, drop |-> 0, boom |-> 0]
    ELSE STAR_PROBS[i + 2]

\* P over a table with a typing error in the keep of level 10 (0.0475 for 0.4750).
P_KeepTypo(i) ==
    IF i < 0 \/ i >= Len(STAR_PROBS)
    THEN [succ |-> 0, keep |-> 0, drop |-> 0, boom |-> 0]
    ELSE IF i = 10 THEN [STAR_PROBS[i + 1] EXCEPT !.keep = 475]
    ELSE STAR_PROBS[i + 1]

\* P over a table whose level 9 can boom (part of its keep moved to boom).
P_BoomAtNine(i) ==
    IF i < 0 \/ i >= Len(STAR_PROBS)
    THEN [succ |-> 0, keep |-> 0, drop |-> 0, boom |-> 0]
    ELSE IF i = 9 THEN [STAR_PROBS[i + 1] EXCEPT !.keep = 4167, !.boom = 58]
    ELSE STAR_PROBS[i + 1]

\* P refusing a row whose probabilities do not sum to 1: it yields the
\* all-zero row for it, as for a level outside the table.
P_DropsBadRow(i) ==
    IF i < 0 \/ i >= Len(STAR_PROBS)
    THEN [succ |-> 0, keep |-> 0, drop |-> 0, boom |-> 0]
    ELSE LET row == STAR_PROBS[i + 1]
         IN  IF row.succ + row.keep + row.drop + row.boom # Scale
             THEN [succ |-> 0, keep |-> 0, drop |-> 0, boom |-> 0]
             ELSE row

\* The local function P of expected_star_cost
P(i) ==
    IF i < 0 \/ i >= Len(probs)
    THEN [succ |-> 0, keep |-> 0, drop |-> 0, boom |-> 0]
    ELSE probs[i + 1]

\* A table entry as a float
Prob(v) == Rat(v, Scale)

----------------------------------------------------------------------------
(* The price store, as load_star_prices reads it for one item and timeframe *)

Levels == 0 .. (MaxLevel - 1)

PriceValues == { RInt(v) : v \in 1 .. MaxPrice }

\* Every map from a subset of Levels to a price.
PartialPriceMaps ==
    UNION { [L -> PriceValues] : L \in SUBSET Levels }

\* What the history table holds where only the other timeframes have a row.
HistPrice == RInt(1)

\* The stores the program can be in.  stats: the non-null last_close of the
\* price_stats rows of the item and timeframe, by from_star.  hist: for each
\* from_star with a non-null close_price in dynamic_pricing (any timeframe),
\* the one with the greatest ts_utc.  Every stats row was written together
\* with a history row (save_sqlite), so hist covers stats; the other
\* timeframes may cover more levels.
Stores ==
    { [stats |-> st, hist |-> st] : st \in PartialPriceMaps }
    \cup
    { [stats |-> st,
       hist  |-> [l \in Levels |-> IF l \in DOMAIN st THEN st[l] ELSE HistPrice]] :
         st \in PartialPriceMaps }

\* _fallback_latest_any_tf_for_star
fallback_latest_any_tf_for_star(store) == store.hist

load_star_prices_Merged(store) ==
    [l \in DOMAIN store.stats \cup DOMAIN store.hist |->
        IF l \in DOMAIN store.stats THEN store.stats[l] ELSE store.hist[l]]

\* load_star_prices: the stats prices if there is any, else the fallback
load_star_prices(store) ==
    LET out == store.stats
    IN  IF DOMAIN out # {} THEN out ELSE fallback_latest_any_tf_for_star(store)

----------------------------------------------------------------------------
(* expected_star_cost: the pure parts *)

MinStar == 1

MaxStar == 25

\* The level a boom sends the item to (the literal 10 of the source).
Anchor == 10

\* InvalidTarget with the upper limit taken one too low.
InvalidTarget_UpperOff(T) == T < MinStar \/ T >= MaxStar

\* The guard of the first raise: T < 1 or T > 25
InvalidTarget(T) == T < MinStar \/ T > MaxStar

\* The ascending sequence of the elements of a finite set of integers.
RECURSIVE Ascending(_)
Ascending(S) ==
    IF S = {} THEN << >>
    ELSE LET m == CHOOSE v \in S : \A w \in S : v <= w
         IN  << m >> \o Ascending(S \ {m})

\* Missing reporting only the first missing level.
Missing_FirstOnly(T, pr) ==
    LET all == Ascending({ l \in 0 .. (T - 1) : l \notin DOMAIN pr })
    IN  IF all = << >> THEN << >> ELSE << all[1] >>

\* missing = [s for s in range(0, T) if s not in prices]
Missing(T, pr) == Ascending({ l \in 0 .. (T - 1) : l \notin DOMAIN pr })

ZeroMatrix(T) == [i \in 0 .. (T - 1) |-> [j \in 0 .. (T - 1) |-> Zero]]

ZeroVector(T) == [i \in 0 .. (T - 1) |-> Zero]

\* BuildRow with the boom term assigned ("=") where the source subtracts
\* ("-="), so that it overwrites what the row already holds in column 10.
BuildRow_BoomAssigned(T, l, pr, mat, rhs) ==
    LET prob == P(l)
        succ == Prob(_p(Get(prob, "succ")))
        keep == Prob(_p(Get(prob, "keep")))
        drop == Prob(_p(Get(prob, "drop")))
        boom == Prob(_p(Get(prob, "boom")))
        A1 == [mat EXCEPT ![l][l] = RSub(One, keep)]
        A2 == IF l + 1 < T THEN [A1 EXCEPT ![l][l + 1] = RNeg(succ)] ELSE A1
        A3 == IF l - 1 >= 0 THEN [A2 EXCEPT ![l][l - 1] = RSub(@, drop)] ELSE A2
        A4 == IF Anchor < T THEN [A3 EXCEPT ![l][Anchor] = RNeg(boom)] ELSE A3
    IN  [A |-> A4, b |-> [rhs EXCEPT ![l] = pr[l]]]

\* BuildRow with the success term subtracted on the diagonal, as if a success
\* left the level where it is, and nothing written in column l + 1.
BuildRow_SuccOnDiagonal(T, l, pr, mat, rhs) ==
    LET prob == P(l)
        succ == Prob(_p(Get(prob, "succ")))
        keep == Prob(_p(Get(prob, "keep")))
        drop == Prob(_p(Get(prob, "drop")))
        boom == Prob(_p(Get(prob, "boom")))
        A1 == [mat EXCEPT ![l][l] = RSub(RSub(One, keep), succ)]
        A3 == IF l - 1 >= 0 THEN [A1 EXCEPT ![l][l - 1] = RSub(@, drop)] ELSE A1
        A4 == IF Anchor < T THEN [A3 EXCEPT ![l][Anchor] = RSub(@, boom)] ELSE A3
    IN  [A |-> A4, b |-> [rhs EXCEPT ![l] = pr[l]]]

\* One pass of the loop body for level l: the four assignments to row l of the
\* matrix, in the order of the source, and the one to the right-hand side.
BuildRow(T, l, pr, mat, rhs) ==
    LET prob == P(l)
        succ == Prob(_p(Get(prob, "succ")))
        keep == Prob(_p(Get(prob, "keep")))
        drop == Prob(_p(Get(prob, "drop")))
        boom == Prob(_p(Get(prob, "boom")))
        A1 == [mat EXCEPT ![l][l] = RSub(One, keep)]
        A2 == IF l + 1 < T THEN [A1 EXCEPT ![l][l + 1] = RNeg(succ)] ELSE A1
        A3 == IF l - 1 >= 0 THEN [A2 EXCEPT ![l][l - 1] = RSub(@, drop)] ELSE A2
        A4 == IF Anchor < T THEN [A3 EXCEPT ![l][Anchor] = RSub(@, boom)] ELSE A3
    IN  [A |-> A4, b |-> [rhs EXCEPT ![l] = pr[l]]]

\* EStart returning the cost from level 0 for every start below the target.
EStart_FromZero(T, start, sol) ==
    IF 0 <= start /\ start < T THEN sol[0]
    ELSE IF start >= T THEN Zero ELSE Inf

\* EStart giving 0 only strictly above the target.
EStart_StrictlyAbove(T, start, sol) ==
    IF 0 <= start /\ start < T THEN sol[start]
    ELSE IF start > T THEN Zero ELSE Inf

\* estart: E[start] if 0 <= start < T, else 0.0 if start >= T, else inf
EStart(T, start, sol) ==
    IF 0 <= start /\ start < T THEN sol[start]
    ELSE IF start >= T THEN Zero ELSE Inf

----------------------------------------------------------------------------
(* solve_linear_system: the pure parts *)

\* The pivot threshold 1e-12 is 1 / (HalfThreshold * HalfThreshold); the
\* product itself does not fit the model's integers.
HalfThreshold == 1000000

\* abs(v) < 1e-12, for a rational v
BelowThreshold(v) ==
    \/ v.num = 0
    \/ ((v.den - 1) \div Abs(v.num)) \div HalfThreshold >= HalfThreshold

\* M = [row[:] + [b[i]] for i, row in enumerate(A)]
Augment(mat, rhs, dim) ==
    [i \in 0 .. (dim - 1) |->
        [j \in 0 .. dim |-> IF j < dim THEN mat[i][j] ELSE rhs[i]]]

\* PivotRow without the search: the diagonal entry is taken as the pivot.
PivotRow_Diagonal(mat, c, dim) == c

\* PivotRow taking the last of the rows of greatest magnitude, not the first.
PivotRow_LastOnTies(mat, c, dim) ==
    CHOOSE r \in c .. (dim - 1) :
        /\ \A q \in c .. (dim - 1) : ~RLess(RAbs(mat[r][c]), RAbs(mat[q][c]))
        /\ \A q \in (r + 1) .. (dim - 1) : RLess(RAbs(mat[q][c]), RAbs(mat[r][c]))

\* max(range(col, n), key=lambda r: abs(M[r][col])): the first row of col..n-1
\* whose entry in the column has the greatest magnitude.
PivotRow(mat, c, dim) ==
    CHOOSE r \in c .. (dim - 1) :
        /\ \A q \in c .. (dim - 1) : ~RLess(RAbs(mat[r][c]), RAbs(mat[q][c]))
        /\ \A q \in c .. (r - 1) : RLess(RAbs(mat[q][c]), RAbs(mat[r][c]))

\* M[col], M[piv] = M[piv], M[col]
SwapRows(mat, c, piv) ==
    IF piv # c THEN [mat EXCEPT ![c] = mat[piv], ![piv] = mat[c]] ELSE mat

\* for j in range(col, n+1): M[col][j] /= fac
Normalize(mat, c, dim) ==
    LET fac == mat[c][c]
    IN  [mat EXCEPT ![c] = [j \in 0 .. dim |-> IF j >= c THEN Fl(RDiv(mat[c][j], fac)) ELSE mat[c][j]]]

\* Eliminate clearing the column only below the pivot row (forward
\* elimination, which needs the back-substitution the source does not have).
Eliminate_BelowOnly(mat, c, dim) ==
    [i \in 0 .. (dim - 1) |->
        IF i <= c THEN mat[i]
        ELSE LET fac2 == mat[i][c]
             IN  IF fac2 # Zero
                 THEN [j \in 0 .. dim |->
                          IF j >= c THEN Fl(RSub(mat[i][j], Fl(RMul(fac2, mat[c][j]))))
                          ELSE mat[i][j]]
                 ELSE mat[i]]

\* for i in range(n): if i != col and M[i][col] != 0.0: M[i][j] -= fac2 * M[col][j]
Eliminate(mat, c, dim) ==
    [i \in 0 .. (dim - 1) |->
        IF i = c THEN mat[i]
        ELSE LET fac2 == mat[i][c]
             IN  IF fac2 # Zero
                 THEN [j \in 0 .. dim |->
                          IF j >= c THEN Fl(RSub(mat[i][j], Fl(RMul(fac2, mat[c][j]))))
                          ELSE mat[i][j]]
                 ELSE mat[i]]

\* One pass of the column loop, once the pivot is accepted.
ReduceColumn(mat, c, dim) ==
    Eliminate(Normalize(SwapRows(mat, c, PivotRow(mat, c, dim)), c, dim), c, dim)

\* return [M[i][n] for i in range(n)]
LastColumn(mat, dim) == [i \in 0 .. (dim - 1) |-> mat[i][dim]]

----------------------------------------------------------------------------
(* The quality ladder: tables, the cube price store and the pure parts *)

\* None, where a string is expected
None == "<None>"

\* POTENTIAL_ODDS, in units of 1/Scale
POTENTIAL_ODDS ==
    [red   |-> [Epic |->  600, Unique |-> 180, Legendary |->  30],
     black |-> [Epic |-> 1500, Unique |-> 350, Legendary |-> 100],
     bonus |-> [Epic |->  476, Unique |-> 196, Legendary |->  50]]

CUBE_SUBTYPE == [red |-> "5062009", black |-> "5062010", bonus |-> "5062500"]

TIERS_ORDER == <<"Rare", "Epic", "Unique", "Legendary">>

\* ("Epic","Unique","Legendary"), the tuple both target checks test against
TargetTiers == {"Epic", "Unique", "Legendary"}

\* The tier strings a call is given.
TierInputs == {"Rare", "Epic", "Unique", "Legendary", "epic", "Mythic"}

\* str.capitalize() on the strings of the model: first character upper
\* case, the rest lower case.
Capitalize(str) ==
    CASE str = "epic"  -> "Epic"
      [] OTHER         -> str

\* The prices a cube row may hold.  2 and 5 tie on the step to Epic:
\* 2 / 0.06 = 5 / 0.15.
CubePrices == { RInt(1), RInt(2), RInt(5) }

\* The latest close of any timeframe, where the store has one that the
\* statistics of the timeframe lack.
CubeHistPrice == RInt(3)

CubeSubtypes == { CUBE_SUBTYPE[k] : k \in DOMAIN CUBE_SUBTYPE }

\* The cube rows of the store: stats is price_stats.last_close of the
\* timeframe by subtype, hist the latest non-null dynamic_pricing.close_price
\* of any timeframe by subtype; NoFloat where there is no row.
CubeStores ==
    { [stats |-> st, hist |-> [k \in CubeSubtypes |-> h]] :
        st \in [CubeSubtypes -> CubePrices \cup {NoFloat}],
        h  \in {CubeHistPrice, NoFloat} }

NoCubes == [stats |-> [k \in CubeSubtypes |-> NoFloat], hist |-> [k \in CubeSubtypes |-> NoFloat]]

\* load_cube_price returning 0.0 for a cube that has no row.
load_cube_price_ZeroDefault(store, subtype) ==
    IF store.stats[subtype] # NoFloat THEN store.stats[subtype]
    ELSE IF store.hist[subtype] # NoFloat THEN store.hist[subtype]
    ELSE Zero

\* load_cube_price: last_close of the timeframe, else the latest close of
\* any timeframe, else None
load_cube_price(store, subtype) ==
    IF store.stats[subtype] # NoFloat THEN store.stats[subtype]
    ELSE store.hist[subtype]

\* x in TIERS_ORDER
InTiers(x) == \E i \in 1 .. Len(TIERS_ORDER) : TIERS_ORDER[i] = x

\* TIERS_ORDER.index(x), for x in TIERS_ORDER
TierIndex(x) == (CHOOSE i \in 1 .. Len(TIERS_ORDER) : TIERS_ORDER[i] = x) - 1

\* Whether _steps_from raises: list.index raises ValueError on a string that
\* is not in TIERS_ORDER.
StepsRaises(start_tier, target_tier) == ~InTiers(start_tier) \/ ~InTiers(target_tier)

\* _steps_from without the "t <= s" guard, walking the ladder between the
\* two tiers whichever is the higher.
_steps_from_Symmetric(start_tier, target_tier) ==
    LET si == TierIndex(start_tier)
        ti == TierIndex(target_tier)
        lo == IF si < ti THEN si ELSE ti
        hi == IF si < ti THEN ti ELSE si
    IN  [k \in 1 .. (hi - lo) |-> <<TIERS_ORDER[lo + k], TIERS_ORDER[lo + k + 1]>>]

\* _steps_from leaving out the first step: range(s + 1, t) for range(s, t).
_steps_from_FromNext(start_tier, target_tier) ==
    LET si == TierIndex(start_tier)
        ti == TierIndex(target_tier)
    IN  IF ti <= si THEN << >>
        ELSE [k \in 1 .. (ti - si - 1) |-> <<TIERS_ORDER[si + k + 1], TIERS_ORDER[si + k + 2]>>]

\* _steps_from, where it does not raise.  The step name
\* f"{TIERS_ORDER[i]}->{TIERS_ORDER[i+1]}" is held as the pair of its two
\* tiers; step.split("->")[1] is the second of the pair.
_steps_from(start_tier, target_tier) ==
    LET si == TierIndex(start_tier)
        ti == TierIndex(target_tier)
    IN  IF ti <= si THEN << >>
        ELSE [k \in 1 .. (ti - si) |-> <<TIERS_ORDER[si + k], TIERS_ORDER[si + k + 1]>>]

\* None, where a breakdown list is expected
NoBreakdown == << <<(<<None, None>>), NoFloat, NoFloat>> >>

\* The main loop without "main_cost = 0.0": the sum goes on from the cost the
\* last call left behind.
RECURSIVE MainLoop_Accumulates(_, _, _, _)
MainLoop_Accumulates(steps, pr, pb, k) ==
    IF k = 0
    THEN [cost |-> IF main_cost = NoFloat THEN Zero ELSE main_cost, breakdown |-> << >>]
    ELSE LET before == MainLoop_Accumulates(steps, pr, pb, k - 1)
             p_r    == Prob(odds["red"][steps[k][2]])
             p_b    == Prob(odds["black"][steps[k][2]])
             ev_r   == RDiv(pr, p_r)
             ev_b   == RDiv(pb, p_b)
         IN  IF ~RLess(ev_b, ev_r)
             THEN [cost |-> RAdd(before.cost, ev_r),
                   breakdown |-> Append(before.breakdown, <<steps[k], pr, p_r>>)]
             ELSE [cost |-> RAdd(before.cost, ev_b),
                   breakdown |-> Append(before.breakdown, <<steps[k], pb, p_b>>)]

\* The main loop without the comparison: every step is costed with the red
\* cube.
RECURSIVE MainLoop_AlwaysRed(_, _, _, _)
MainLoop_AlwaysRed(steps, pr, pb, k) ==
    IF k = 0 THEN [cost |-> Zero, breakdown |-> << >>]
    ELSE LET before == MainLoop_AlwaysRed(steps, pr, pb, k - 1)
             p_r    == Prob(odds["red"][steps[k][2]])
         IN  [cost |-> RAdd(before.cost, RDiv(pr, p_r)),
              breakdown |-> Append(before.breakdown, <<steps[k], pr, p_r>>)]

\* The main loop: per step the cheaper of price_red / p_r and
\* price_black / p_b, red on a tie; [cost, breakdown] after the first k steps.
RECURSIVE MainLoop(_, _, _, _)
MainLoop(steps, pr, pb, k) ==
    IF k = 0 THEN [cost |-> Zero, breakdown |-> << >>]
    ELSE LET before  == MainLoop(steps, pr, pb, k - 1)
             step    == steps[k]
             tier_to == step[2]
             p_r     == Prob(odds["red"][tier_to])
             p_b     == Prob(odds["black"][tier_to])
             ev_r    == Fl(RDiv(pr, p_r))
             ev_b    == Fl(RDiv(pb, p_b))
         IN  IF ~RLess(ev_b, ev_r)
             THEN [cost |-> Fl(RAdd(before.cost, ev_r)),
                   breakdown |-> Append(before.breakdown, <<step, pr, p_r>>)]
             ELSE [cost |-> Fl(RAdd(before.cost, ev_b)),
                   breakdown |-> Append(before.breakdown, <<step, pb, p_b>>)]

\* The bonus loop: price_bonus / p per step.
RECURSIVE BonusLoop(_, _, _)
BonusLoop(steps, pbonus, k) ==
    IF k = 0 THEN [cost |-> Zero, breakdown |-> << >>]
    ELSE LET before  == BonusLoop(steps, pbonus, k - 1)
             step    == steps[k]
             tier_to == step[2]
             p       == Prob(odds["bonus"][tier_to])
             ev      == Fl(RDiv(pbonus, p))
         IN  [cost |-> Fl(RAdd(before.cost, ev)),
              breakdown |-> Append(before.breakdown, <<step, pbonus, p>>)]

\* "if bonus_target_tier is not None:" in place of the truth test.
Truthy_NotNone(str) == str # None

\* "if bonus_target_tier:": neither None nor the empty string
Truthy(str) == str # None /\ str # ""

----------------------------------------------------------------------------
(* Outcomes of a call *)

NoOutcome ==
    [kind |-> "none", missing |-> << >>, e0 |-> NoFloat, estart |-> NoFloat,
     step_costs |-> << >>]

\* raise ValueError(...): kind tells the three messages apart
Raised(kind, miss) == [NoOutcome EXCEPT !.kind = kind, !.missing = miss]

\* StarCostResult with step_costs cut down to the levels below the target.
StarCostResult_BelowTarget(pr, sol, T, start) ==
    [kind |-> "ok", missing |-> << >>, e0 |-> sol[0],
     estart |-> EStart(T, start, sol),
     step_costs |-> [l \in (DOMAIN pr) \cap (0 .. (T - 1)) |-> pr[l]]]

\* return StarCostResult(...)
StarCostResult(pr, sol, T, start) ==
    [kind |-> "ok", missing |-> << >>, e0 |-> sol[0],
     estart |-> EStart(T, start, sol), step_costs |-> pr]

\* raise ValueError(...) of the quality estimator; kind tells the explicit
\* tier checks ("InvalidTier") from the ValueError of list.index ("NotInList")
PotRaised(kind) == [kind |-> kind]

\* return PotentialDualResult(...); item_id and timeframe are passed through
PotentialDualResult(ms, mt, mc, mb, bs, bt, bc, bb) ==
    [kind |-> "ok", main_start_tier |-> ms, main_target_tier |-> mt,
     main_cost |-> mc, main_breakdown |-> mb,
     bonus_start_tier |-> bs, bonus_target_tier |-> bt,
     bonus_cost |-> bc, bonus_breakdown |-> bb]

PotentialCostResult_MainOnly(tt, mc, mb, bc, bb) ==
    [kind |-> "ok", target_tier |-> tt, main_cost |-> mc, main_breakdown |-> mb,
     bonus_cost |-> NoFloat, bonus_breakdown |-> NoBreakdown]

\* return PotentialCostResult(...) of expected_potential_cost
PotentialCostResult(tt, mc, mb, bc, bb) ==
    [kind |-> "ok", target_tier |-> tt, main_cost |-> mc, main_breakdown |-> mb,
     bonus_cost |-> bc, bonus_breakdown |-> bb]

\* The locals of App._on_estimate before the total is formed.
NoTotal == [star_cost |-> NoFloat, total |-> Zero, parts |-> << >>]

\* No call is remembered.
NoCall == [key |-> << >>, outcome |-> NoOutcome, E |-> << >>, probs |-> << >>]

\* A database file without rows, and the default timeframe.
DbIdle ==
    /\ dynamic_pricing = << >>
    /\ price_stats = << >>
    /\ timeframe = "20m"

\* (None, None, None, None)
NoVals == <<None, None, None, None>>

\* scrape_one_interval is not called.
ScrapeIdle ==
    /\ script = "scraper"
    /\ max_read_tries = 0
    /\ reload_on_try = 0
    /\ at = "idle"
    /\ tries = 0
    /\ attempt = 0
    /\ last_vals = NoVals
    /\ reads = << >>
    /\ reloads = << >>

\* App.__init__ and the scheduler tab as built: no thread, the event clear,
\* the start button enabled and the stop button disabled.
SchedIdle ==
    /\ threads = << >>
    /\ sched_stop = FALSE
    /\ btn_sched_start = "normal"
    /\ btn_sched_stop = "disabled"
    /\ s_log = ""
    /\ messagebox = ""
    /\ jobs = 0

\* Nothing outside the estimators has acted.
EnvIdle == DbIdle /\ ScrapeIdle /\ SchedIdle

\* The tables as the module defines them, and no call remembered.
AuxIdle ==
    /\ probs = STAR_PROBS
    /\ odds = POTENTIAL_ODDS
    /\ first = NoCall
    /\ EnvIdle

\* The state of the variables of the quality estimator before any call.
PotIdle ==
    /\ cube = NoCubes
    /\ main_target_tier = None
    /\ main_start_tier = None
    /\ bonus_target_tier = None
    /\ bonus_start_tier = None
    /\ price_red = NoFloat
    /\ price_black = NoFloat
    /\ price_bonus = NoFloat
    /\ main_cost = NoFloat
    /\ main_breakdown = NoBreakdown
    /\ total = NoTotal

----------------------------------------------------------------------------
(* expected_star_cost, step by step *)

TargetInputs == (MinStar - 2) .. (MaxStar + 2)

StartInputs == -1 .. (MaxLevel + 1)

\* Entry, T = int(target_star), and the range check.
StarBegin(t, st) ==
    /\ pc \in {"idle", "done"}
    /\ caller' = "star"
    /\ target_star' = t
    /\ start_star' = st
    /\ prices' = << >>
    /\ A' = << >>
    /\ b' = << >>
    /\ s' = 0
    /\ n' = 0
    /\ M' = << >>
    /\ col' = 0
    /\ E' = << >>
    /\ IF InvalidTarget(t)
       THEN /\ pc' = "done"
            /\ outcome' = Raised("InvalidTarget", << >>)
       ELSE /\ pc' = "load"
            /\ outcome' = NoOutcome
    /\ UNCHANGED <<db, mant, potvars, auxvars>>

\* prices = load_star_prices(...), the missing check, and the zeroed A and b.
StarLoad ==
    /\ pc = "load"
    /\ prices' = load_star_prices(db)
    /\ LET missing == Missing(target_star, prices')
       IN  IF missing # << >>
           THEN /\ pc' = "done"
                /\ outcome' = Raised("MissingPrice", missing)
                /\ UNCHANGED <<A, b>>
           ELSE /\ pc' = "build"
                /\ A' = ZeroMatrix(target_star)
                /\ b' = ZeroVector(target_star)
                /\ UNCHANGED outcome
    /\ s' = 0
    /\ UNCHANGED <<db, caller, mant, target_star, start_star, n, M, col, E, potvars, auxvars>>

\* One pass of "for s in range(0, T)".
StarBuildRow ==
    /\ pc = "build"
    /\ s < target_star
    /\ LET built == BuildRow(target_star, s, prices, A, b)
       IN  /\ A' = built.A
           /\ b' = built.b
    /\ s' = s + 1
    /\ pc' = IF s + 1 = target_star THEN "call_solve" ELSE "build"
    /\ UNCHANGED <<db, caller, mant, target_star, start_star, prices, n, M, col, E, outcome, potvars, auxvars>>

----------------------------------------------------------------------------
(* solve_linear_system, step by step *)

\* n = len(A) and the augmented copy M.
SolveBegin ==
    /\ pc = "call_solve"
    /\ n' = Cardinality(DOMAIN A)
    /\ M' = Augment(A, b, n')
    /\ col' = 0
    /\ pc' = "pivot"
    /\ UNCHANGED <<db, caller, mant, target_star, start_star, prices, A, b, s, E, outcome, potvars, auxvars>>

\* SolveStep working on the caller's lists (M built from the rows of A
\* themselves, not from copies): what it does to M shows in A and b.
SolveStep_InPlace ==
    /\ pc = "pivot"
    /\ col < n
    /\ LET piv == PivotRow(M, col, n)
       IN  IF BelowThreshold(M[piv][col])
           THEN /\ pc' = "done"
                /\ outcome' = Raised("Singular", << >>)
                /\ UNCHANGED <<M, col, A, b>>
           ELSE /\ M' = ReduceColumn(M, col, n)
                /\ A' = [i \in 0 .. (n - 1) |-> [j \in 0 .. (n - 1) |-> M'[i][j]]]
                /\ b' = [i \in 0 .. (n - 1) |-> M'[i][n]]
                /\ col' = col + 1
                /\ UNCHANGED <<pc, outcome>>
    /\ UNCHANGED <<db, caller, mant, target_star, start_star, prices, s, n, E, potvars, auxvars>>

\* One pass of "for col in range(n)": raise on a pivot below the threshold,
\* else swap, normalise and eliminate.
SolveStep ==
    /\ pc = "pivot"
    /\ col < n
    /\ LET piv == PivotRow(M, col, n)
       IN  IF BelowThreshold(M[piv][col])
           THEN /\ pc' = "done"
                /\ outcome' = Raised("Singular", << >>)
                /\ UNCHANGED <<M, col>>
           ELSE /\ M' = ReduceColumn(M, col, n)
                /\ col' = col + 1
                /\ UNCHANGED <<pc, outcome>>
    /\ UNCHANGED <<db, caller, mant, target_star, start_star, prices, A, b, s, n, E, potvars, auxvars>>

\* The return of the last column, to expected_star_cost or to a direct caller.
SolveReturn ==
    /\ pc = "pivot"
    /\ col = n
    /\ E' = LastColumn(M, n)
    /\ pc' = IF caller = "star" THEN "solved" ELSE "done"
    /\ outcome' = IF caller = "star" THEN outcome
                  ELSE [NoOutcome EXCEPT !.kind = "ok"]
    /\ UNCHANGED <<db, caller, mant, target_star, start_star, prices, A, b, s, n, M, col, potvars, auxvars>>

\* e0, estart and the result.
StarReturn ==
    /\ pc = "solved"
    /\ outcome' = StarCostResult(prices, E, target_star, start_star)
    /\ pc' = "done"
    /\ UNCHANGED <<db, caller, mant, target_star, start_star, prices, A, b, s, n, M, col, E, potvars, auxvars>>

----------------------------------------------------------------------------
(* Spec: calls of expected_star_cost against a price store *)

Init ==
    /\ db \in Stores
    /\ pc = "idle"
    /\ caller = "star"
    /\ mant = 0
    /\ target_star = 0
    /\ start_star = 0
    /\ prices = << >>
    /\ A = << >>
    /\ b = << >>
    /\ s = 0
    /\ n = 0
    /\ M = << >>
    /\ col = 0
    /\ E = << >>
    /\ outcome = NoOutcome
    /\ PotIdle
    /\ AuxIdle

Next ==
    \/ \E t \in TargetInputs, st \in StartInputs : StarBegin(t, st)
    \/ StarLoad
    \/ StarBuildRow
    \/ SolveBegin
    \/ SolveStep
    \/ SolveReturn
    \/ StarReturn

Spec == Init /\ [][Next]_vars

----------------------------------------------------------------------------
(* SpecBuild: the row-building loop of expected_star_cost as a function of *)
(* the target and a fully populated price map, for every valid target      *)

\* The price map giving level l the price l + c.
PriceProfile(T, c) == [l \in 0 .. (T - 1) |-> RInt(l + c)]

InitBuild ==
    /\ target_star \in MinStar .. MaxStar
    /\ \E c \in 1 .. MaxPrice : prices = PriceProfile(target_star, c)
    /\ db = [stats |-> prices, hist |-> prices]
    /\ pc = "build"
    /\ caller = "star"
    /\ mant = 0
    /\ start_star = 0
    /\ A = ZeroMatrix(target_star)
    /\ b = ZeroVector(target_star)
    /\ s = 0
    /\ n = 0
    /\ M = << >>
    /\ col = 0
    /\ E = << >>
    /\ outcome = NoOutcome
    /\ PotIdle
    /\ AuxIdle

NextBuild == StarBuildRow

SpecBuild == InitBuild /\ [][NextBuild]_vars

----------------------------------------------------------------------------
(* SpecPivot: expected_star_cost from the row loop to the result, with a   *)
(* fully populated price map, for the targets whose systems the exact      *)
(* arithmetic of this module can hold: 1..11, and 12 with prices of 0      *)

InitPivot ==
    /\ \/ /\ target_star \in MinStar .. 11
          /\ prices = [l \in 0 .. (target_star - 1) |-> One]
       \/ /\ target_star = 12
          /\ prices = [l \in 0 .. (target_star - 1) |-> Zero]
    /\ db = [stats |-> prices, hist |-> prices]
    /\ pc = "build"
    /\ caller = "star"
    /\ mant = 0
    /\ start_star = 0
    /\ A = ZeroMatrix(target_star)
    /\ b = ZeroVector(target_star)
    /\ s = 0
    /\ n = 0
    /\ M = << >>
    /\ col = 0
    /\ E = << >>
    /\ outcome = NoOutcome
    /\ PotIdle
    /\ AuxIdle

NextPivot ==
    \/ StarBuildRow
    \/ SolveBegin
    \/ SolveStep
    \/ SolveReturn
    \/ StarReturn

SpecPivot == InitPivot /\ [][NextPivot]_vars

----------------------------------------------------------------------------
(* SpecSolve: direct calls of solve_linear_system on bounded inputs *)

SolveEntries == { RInt(-2), Zero, One }

SolveRhs == { Zero, RInt(3) }

InitSolve ==
    /\ \E dim \in 1 .. MaxDim :
          /\ A \in [0 .. (dim - 1) -> [0 .. (dim - 1) -> SolveEntries]]
          /\ b \in [0 .. (dim - 1) -> SolveRhs]
    /\ db = [stats |-> << >>, hist |-> << >>]
    /\ pc = "call_solve"
    /\ caller = "direct"
    /\ mant = 0
    /\ target_star = 0
    /\ start_star = 0
    /\ prices = << >>
    /\ s = 0
    /\ n = 0
    /\ M = << >>
    /\ col = 0
    /\ E = << >>
    /\ outcome = NoOutcome
    /\ PotIdle
    /\ AuxIdle

NextSolve ==
    \/ SolveBegin
    \/ SolveStep
    \/ SolveReturn

SpecSolve == InitSolve /\ [][NextSolve]_vars

----------------------------------------------------------------------------
(* SpecFloat: direct calls of solve_linear_system computing in floats of   *)
(* MantBits mantissa bits, on inputs those floats hold exactly             *)

\* Mantissa bits of the solver's floats in SpecFloat (a double has 53).
MantBits == 5

FloatEntries == { Zero, RInt(3), RInt(11) }

FloatRhs == { RInt(3) }

InitFloat ==
    /\ \E dim \in 1 .. MaxDim :
          /\ A \in [0 .. (dim - 1) -> [0 .. (dim - 1) -> FloatEntries]]
          /\ b \in [0 .. (dim - 1) -> FloatRhs]
    /\ db = [stats |-> << >>, hist |-> << >>]
    /\ pc = "call_solve"
    /\ caller = "direct"
    /\ mant = MantBits
    /\ target_star = 0
    /\ start_star = 0
    /\ prices = << >>
    /\ s = 0
    /\ n = 0
    /\ M = << >>
    /\ col = 0
    /\ E = << >>
    /\ outcome = NoOutcome
    /\ PotIdle
    /\ AuxIdle

NextFloat ==
    \/ SolveBegin
    \/ SolveStep
    \/ SolveReturn

SpecFloat == InitFloat /\ [][NextFloat]_vars

----------------------------------------------------------------------------
(* expected_potential_cost_dual (caller = "potential") and                  *)
(* expected_potential_cost (caller = "single", its target_tier and         *)
(* start_tier held in main_target_tier and main_start_tier), step by step,  *)
(* and the total of the caller of the former                               *)

\* Entry: the capitalize() and the check of the (main) target.
PotBegin ==
    /\ pc = "call"
    /\ caller \in {"potential", "single"}
    /\ main_target_tier' = Capitalize(main_target_tier)
    /\ IF main_target_tier' \notin TargetTiers
       THEN /\ pc' = "done"
            /\ outcome' = PotRaised("InvalidTier")
       ELSE /\ pc' = "cubes"
            /\ outcome' = NoOutcome
    /\ UNCHANGED <<caller, cube, main_start_tier, bonus_target_tier, bonus_start_tier,
                   price_red, price_black, price_bonus, main_cost, main_breakdown,
                   total, starvars, auxvars>>

\* The three load_cube_price calls.
PotLoad ==
    /\ pc = "cubes"
    /\ price_red' = load_cube_price(cube, CUBE_SUBTYPE["red"])
    /\ price_black' = load_cube_price(cube, CUBE_SUBTYPE["black"])
    /\ price_bonus' = load_cube_price(cube, CUBE_SUBTYPE["bonus"])
    /\ pc' = "main"
    /\ UNCHANGED <<caller, outcome, cube, main_target_tier, main_start_tier,
                   bonus_target_tier, bonus_start_tier, main_cost, main_breakdown,
                   total, starvars, auxvars>>

\* The main part: _steps_from, then the loop if both prices are there.
PotMain ==
    /\ pc = "main"
    /\ IF StepsRaises(main_start_tier, main_target_tier)
       THEN /\ pc' = "done"
            /\ outcome' = PotRaised("NotInList")
            /\ UNCHANGED <<main_cost, main_breakdown>>
       ELSE LET main_steps == _steps_from(main_start_tier, main_target_tier)
                main == MainLoop(main_steps, price_red, price_black, Len(main_steps))
            IN  /\ IF price_red # NoFloat /\ price_black # NoFloat
                   THEN /\ main_cost' = main.cost
                        /\ main_breakdown' = main.breakdown
                   ELSE /\ main_cost' = NoFloat
                        /\ main_breakdown' = NoBreakdown
                /\ pc' = "bonus"
                /\ UNCHANGED outcome
    /\ UNCHANGED <<caller, cube, main_target_tier, main_start_tier, bonus_target_tier,
                   bonus_start_tier, price_red, price_black, price_bonus, total, starvars, auxvars>>

\* The bonus part and the return of expected_potential_cost: the bonus cost
\* over the steps of the one ladder, whenever the bonus price is there.
SingleBonus ==
    /\ pc = "bonus"
    /\ caller = "single"
    /\ pc' = "done"
    /\ LET steps == _steps_from(main_start_tier, main_target_tier)
           bonus == BonusLoop(steps, price_bonus, Len(steps))
       IN  outcome' = IF price_bonus # NoFloat
                      THEN PotentialCostResult(main_target_tier, main_cost, main_breakdown,
                                               bonus.cost, bonus.breakdown)
                      ELSE PotentialCostResult(main_target_tier, main_cost, main_breakdown,
                                               NoFloat, NoBreakdown)
    /\ UNCHANGED <<caller, cube, main_target_tier, main_start_tier, bonus_target_tier,
                   bonus_start_tier, price_red, price_black, price_bonus, main_cost,
                   main_breakdown, total, starvars, auxvars>>

\* The bonus part and the return of expected_potential_cost_dual.
PotBonus ==
    /\ pc = "bonus"
    /\ caller = "potential"
    /\ pc' = "done"
    /\ LET bonus_target_norm == IF Truthy(bonus_target_tier)
                                THEN Capitalize(bonus_target_tier) ELSE None
           bonus_start == IF Truthy(bonus_target_tier) THEN bonus_start_tier ELSE None
       IN  IF Truthy(bonus_target_tier) /\ bonus_target_norm \notin TargetTiers
           THEN outcome' = PotRaised("InvalidTier")
           ELSE IF Truthy(bonus_target_tier) /\ price_bonus # NoFloat
           THEN IF StepsRaises(bonus_start_tier, bonus_target_norm)
                THEN outcome' = PotRaised("NotInList")
                ELSE LET bonus_steps == _steps_from(bonus_start_tier, bonus_target_norm)
                         bonus == BonusLoop(bonus_steps, price_bonus, Len(bonus_steps))
                     IN  outcome' = PotentialDualResult(
                             main_start_tier, main_target_tier, main_cost, main_breakdown,
                             bonus_start, bonus_target_norm, bonus.cost, bonus.breakdown)
           ELSE outcome' = PotentialDualResult(
                    main_start_tier, main_target_tier, main_cost, main_breakdown,
                    bonus_start, bonus_target_norm, NoFloat, NoBreakdown)
    /\ UNCHANGED <<caller, cube, main_target_tier, main_start_tier, bonus_target_tier,
                   bonus_start_tier, price_red, price_black, price_bonus, main_cost,
                   main_breakdown, total, starvars, auxvars>>

\* App._on_estimate after the call, bonus_target_tier being the bt it passed:
\* main_cost and bonus_cost are those of the result, None if the call raised;
\* the total adds the parts that are there, the bonus cost only if bt is not
\* None.  star_cost is the cost of the reinforcement estimate, None when that
\* is disabled or raised.
OnEstimateTotal(star_cost) ==
    /\ pc = "done"
    /\ caller = "potential"
    /\ LET mc == IF outcome.kind = "ok" THEN outcome.main_cost ELSE NoFloat
           bc == IF outcome.kind = "ok" THEN outcome.bonus_cost ELSE NoFloat
           t0 == [NoTotal EXCEPT !.star_cost = star_cost]
           t1 == IF star_cost # NoFloat
                 THEN [t0 EXCEPT !.total = RAdd(t0.total, star_cost),
                                 !.parts = Append(t0.parts, "star")]
                 ELSE t0
           t2 == IF mc # NoFloat
                 THEN [t1 EXCEPT !.total = RAdd(t1.total, mc),
                                 !.parts = Append(t1.parts, "main")]
                 ELSE t1
           t3 == IF bonus_target_tier # None /\ bc # NoFloat
                 THEN [t2 EXCEPT !.total = RAdd(t2.total, bc),
                                 !.parts = Append(t2.parts, "bonus")]
                 ELSE t2
       IN  total' = t3
    /\ pc' = "totalled"
    /\ UNCHANGED <<caller, outcome, cube, main_target_tier, main_start_tier,
                   bonus_target_tier, bonus_start_tier, price_red, price_black,
                   price_bonus, main_cost, main_breakdown, starvars, auxvars>>

----------------------------------------------------------------------------
(* SpecPotential: one call of expected_potential_cost_dual or of           *)
(* expected_potential_cost against a store, for every store and every      *)
(* argument, and the total of App._on_estimate after the former            *)

\* bonus_target_tier: not supplied, empty, or a tier string
BonusTargetInputs == TierInputs \cup {None, ""}

\* star_cost of App._on_estimate
StarCostInputs == { NoFloat, RInt(7) }

\* The state of the variables of expected_star_cost where it is not called.
StarIdle ==
    /\ db = [stats |-> << >>, hist |-> << >>]
    /\ mant = 0
    /\ target_star = 0
    /\ start_star = 0
    /\ prices = << >>
    /\ A = << >>
    /\ b = << >>
    /\ s = 0
    /\ n = 0
    /\ M = << >>
    /\ col = 0
    /\ E = << >>

InitPotential ==
    /\ cube \in CubeStores
    /\ pc = "call"
    /\ outcome = NoOutcome
    /\ main_target_tier \in TierInputs
    /\ main_start_tier \in TierInputs
    /\ \/ /\ caller = "potential"
          /\ bonus_target_tier \in BonusTargetInputs
          /\ bonus_start_tier \in TierInputs
       \/ /\ caller = "single"
          /\ bonus_target_tier = None
          /\ bonus_start_tier = None
    /\ price_red = NoFloat
    /\ price_black = NoFloat
    /\ price_bonus = NoFloat
    /\ main_cost = NoFloat
    /\ main_breakdown = NoBreakdown
    /\ total = NoTotal
    /\ StarIdle
    /\ AuxIdle

NextPotential ==
    \/ PotBegin
    \/ PotLoad
    \/ PotMain
    \/ PotBonus
    \/ SingleBonus
    \/ \E sc \in StarCostInputs : OnEstimateTotal(sc)

SpecPotential == InitPotential /\ [][NextPotential]_vars

----------------------------------------------------------------------------
(* SpecLadder: one call of expected_potential_cost_dual with tiers of      *)
(* TIERS_ORDER, in exact arithmetic and in floats of MantBits mantissa bits *)

InitLadder ==
    /\ cube \in { c \in CubeStores : \A k \in CubeSubtypes : c.hist[k] = NoFloat }
    /\ pc = "call"
    /\ caller = "potential"
    /\ outcome = NoOutcome
    /\ main_target_tier \in { TIERS_ORDER[i] : i \in 1 .. Len(TIERS_ORDER) }
    /\ main_start_tier \in { TIERS_ORDER[i] : i \in 1 .. Len(TIERS_ORDER) }
    /\ bonus_target_tier \in TargetTiers \cup {None}
    /\ bonus_start_tier \in { TIERS_ORDER[i] : i \in 1 .. Len(TIERS_ORDER) }
    /\ price_red = NoFloat
    /\ price_black = NoFloat
    /\ price_bonus = NoFloat
    /\ main_cost = NoFloat
    /\ main_breakdown = NoBreakdown
    /\ total = NoTotal
    /\ db = [stats |-> << >>, hist |-> << >>]
    /\ mant \in {0, MantBits}
    /\ target_star = 0
    /\ start_star = 0
    /\ prices = << >>
    /\ A = << >>
    /\ b = << >>
    /\ s = 0
    /\ n = 0
    /\ M = << >>
    /\ col = 0
    /\ E = << >>
    /\ AuxIdle

NextLadder ==
    \/ PotBegin
    \/ PotLoad
    \/ PotMain
    \/ PotBonus

SpecLadder == InitLadder /\ [][NextLadder]_vars

----------------------------------------------------------------------------
(* SpecRepeat: calls of expected_star_cost and expected_potential_cost_dual *)
(* one after another against one store, one earlier call being remembered  *)

\* A call of expected_potential_cost_dual after other calls: the arguments
\* are bound; the locals hold nothing the call reads before it assigns them.
PotCall(mt, ms, bt, bs) ==
    /\ pc \in {"idle", "done"}
    /\ caller' = "potential"
    /\ main_target_tier' = mt
    /\ main_start_tier' = ms
    /\ bonus_target_tier' = bt
    /\ bonus_start_tier' = bs
    /\ pc' = "call"
    /\ outcome' = NoOutcome
    /\ UNCHANGED <<cube, price_red, price_black, price_bonus, main_cost, main_breakdown,
                   total, starvars, auxvars>>

\* The arguments of the call that is running or has ended.
CallKey ==
    IF caller = "star"
    THEN [fn |-> "expected_star_cost", target_star |-> target_star,
          start_star |-> start_star, main_target_tier |-> None, main_start_tier |-> None,
          bonus_target_tier |-> None, bonus_start_tier |-> None]
    ELSE [fn |-> "expected_potential_cost_dual", target_star |-> 0, start_star |-> 0,
          main_target_tier |-> main_target_tier, main_start_tier |-> main_start_tier,
          bonus_target_tier |-> bonus_target_tier, bonus_start_tier |-> bonus_start_tier]

\* The observer remembers the call that has just ended, if it remembers none.
Observe ==
    /\ pc = "done"
    /\ first = NoCall
    /\ first' = [key |-> CallKey, outcome |-> outcome, E |-> E, probs |-> probs]
    /\ pc' = "idle"
    /\ UNCHANGED <<caller, outcome, starvars, potvars, probs, odds, envvars>>

\* The stores: star prices all 1 with the history of the timeframe alone;
\* cube rows with a black and a bonus price, with or without a red one.
InitRepeat ==
    /\ db \in { st \in Stores :
                   st.hist = st.stats /\ \A l \in DOMAIN st.stats : st.stats[l] = One }
    /\ cube \in { c \in CubeStores :
                     /\ c.hist[CUBE_SUBTYPE.red] = NoFloat
                     /\ c.stats[CUBE_SUBTYPE.red] \in {NoFloat, One}
                     /\ c.stats[CUBE_SUBTYPE.black] = RInt(2)
                     /\ c.stats[CUBE_SUBTYPE.bonus] = One }
    /\ pc = "idle"
    /\ caller = "star"
    /\ outcome = NoOutcome
    /\ mant = 0
    /\ target_star = 0
    /\ start_star = 0
    /\ prices = << >>
    /\ A = << >>
    /\ b = << >>
    /\ s = 0
    /\ n = 0
    /\ M = << >>
    /\ col = 0
    /\ E = << >>
    /\ main_target_tier = None
    /\ main_start_tier = None
    /\ bonus_target_tier = None
    /\ bonus_start_tier = None
    /\ price_red = NoFloat
    /\ price_black = NoFloat
    /\ price_bonus = NoFloat
    /\ main_cost = NoFloat
    /\ main_breakdown = NoBreakdown
    /\ total = NoTotal
    /\ AuxIdle

NextRepeat ==
    \/ \E t \in (MinStar - 1) .. (MinStar + 1), st \in {0, 1} : StarBegin(t, st)
    \/ StarLoad
    \/ StarBuildRow
    \/ SolveBegin
    \/ SolveStep
    \/ SolveReturn
    \/ StarReturn
    \/ \E mt \in {"Rare", "Legendary"}, ms \in {"Rare", "Unique"},
          bt \in {None, "Epic"}, bs \in {"Rare", "Mythic"} : PotCall(mt, ms, bt, bs)
    \/ PotBegin
    \/ PotLoad
    \/ PotMain
    \/ PotBonus
    \/ Observe

SpecRepeat == InitRepeat /\ [][NextRepeat]_vars

----------------------------------------------------------------------------
(* SpecTwin: one call of expected_potential_cost, remembered, then the call *)
(* of expected_potential_cost_dual with both starts the start and both     *)
(* targets the target of the first                                          *)

\* The single estimator is called with target_tier and start_tier; the pair
\* is kept in bonus_target_tier and bonus_start_tier, which it never reads.
InitTwin ==
    /\ cube \in { c \in CubeStores : \A k \in CubeSubtypes : c.hist[k] = NoFloat }
    /\ pc = "call"
    /\ caller = "single"
    /\ outcome = NoOutcome
    /\ main_target_tier \in TierInputs
    /\ main_start_tier \in TierInputs
    /\ bonus_target_tier = main_target_tier
    /\ bonus_start_tier = main_start_tier
    /\ price_red = NoFloat
    /\ price_black = NoFloat
    /\ price_bonus = NoFloat
    /\ main_cost = NoFloat
    /\ main_breakdown = NoBreakdown
    /\ total = NoTotal
    /\ db = [stats |-> << >>, hist |-> << >>]
    /\ mant \in {0, MantBits}
    /\ target_star = 0
    /\ start_star = 0
    /\ prices = << >>
    /\ A = << >>
    /\ b = << >>
    /\ s = 0
    /\ n = 0
    /\ M = << >>
    /\ col = 0
    /\ E = << >>
    /\ AuxIdle

NextTwin ==
    \/ PotBegin
    \/ PotLoad
    \/ PotMain
    \/ SingleBonus
    \/ Observe
    \/ /\ first # NoCall
       /\ pc = "idle"
       /\ PotCall(bonus_target_tier, bonus_start_tier, bonus_target_tier, bonus_start_tier)
    \/ PotBonus

SpecTwin == InitTwin /\ [][NextTwin]_vars

----------------------------------------------------------------------------
(* SpecScrape: one call of scrape_one_interval, of either file, under its   *)
(* retry decorator, against a page that answers as it pleases               *)

MaxReads == 3

\* stop_after_attempt(4)
StopAfterAttempt == 4

\* What extract_four_tiles may return: (close, low, high, count), each a
\* number or None.
TileReads ==
    { NoVals, <<None, None, None, "n">>, <<"n", None, None, None>>,
      <<None, "n", "n", None>>, <<"n", "n", "n", "n">> }

ready_AllPresent(file, vals) == \A i \in 1 .. 4 : vals[i] # None

\* ready, as each file computes it from vals.
ready(file, vals) ==
    IF file = "scraper"
    THEN ~(vals[1] = None /\ vals[2] = None /\ vals[3] = None /\ vals[4] = None)
    ELSE ~( \/ (vals[1] = None /\ vals[2] = None /\ vals[3] = None /\ vals[4] = None)
            \/ (vals[1] = None /\ vals[2] = None /\ vals[3] = None) )

\* A PWTimeoutError leaves the function: the decorator calls it again, or
\* re-raises after the last attempt.
Timeout ==
    /\ at' = IF tries < StopAfterAttempt THEN "call" ELSE "raised"
    /\ UNCHANGED <<attempt, last_vals, reads, reloads, tries>>

\* The decorator calls the function: page.goto and wait_dp_ready, the click
\* on the timeframe, and last_vals = (None, None, None, None).
ScrapeGoto ==
    /\ at = "call"
    /\ tries < StopAfterAttempt
    /\ tries' = tries + 1
    /\ \/ /\ at' = IF max_read_tries >= 1 THEN "read" ELSE "return"
          /\ attempt' = 1
          /\ last_vals' = NoVals
          /\ reads' = << >>
          /\ reloads' = << >>
       \/ /\ at' = IF tries' < StopAfterAttempt THEN "call" ELSE "raised"
          /\ UNCHANGED <<attempt, last_vals, reads, reloads>>
    /\ UNCHANGED <<script, max_read_tries, reload_on_try>>
    /\ UNCHANGED <<pc, caller, outcome, starvars, potvars, probs, odds, first, dbvars, schedvars>>

\* One pass of "for attempt in range(1, max_read_tries + 1)".
ScrapeRead(vals) ==
    /\ at = "read"
    /\ \/ /\ reads' = Append(reads, vals)
          /\ last_vals' = vals
          /\ IF ready(script, vals)
             THEN /\ at' = "return"
                  /\ UNCHANGED <<attempt, reloads>>
             ELSE /\ reloads' = IF attempt = reload_on_try
                                THEN Append(reloads, attempt) ELSE reloads
                  /\ attempt' = attempt + 1
                  /\ at' = IF attempt' <= max_read_tries THEN "read" ELSE "return"
          /\ UNCHANGED tries
       \/ Timeout
    /\ UNCHANGED <<script, max_read_tries, reload_on_try>>
    /\ UNCHANGED <<pc, caller, outcome, starvars, potvars, probs, odds, first, dbvars, schedvars>>

InitScrape ==
    /\ script \in {"scraper", "test"}
    /\ max_read_tries \in 1 .. MaxReads
    /\ reload_on_try \in 1 .. (MaxReads + 1)
    /\ at = "call"
    /\ tries = 0
    /\ attempt = 0
    /\ last_vals = NoVals
    /\ reads = << >>
    /\ reloads = << >>
    /\ DbIdle
    /\ SchedIdle
    /\ probs = STAR_PROBS
    /\ odds = POTENTIAL_ODDS
    /\ first = NoCall
    /\ StarIdle
    /\ PotIdle
    /\ pc = "idle"
    /\ caller = "star"
    /\ outcome = NoOutcome

NextScrape ==
    \/ ScrapeGoto
    \/ \E vals \in TileReads : ScrapeRead(vals)

SpecScrape == InitScrape /\ [][NextScrape]_vars

----------------------------------------------------------------------------
(* SpecSched: the scheduler tab of App: the start, stop and run-once        *)
(* handlers on the main thread, the loop of each scheduler thread and the   *)
(* run-once jobs, interleaved                                               *)

MaxRuns == 2

MaxWait == 2

\* A scheduler thread: lpc its position in loop(), total = interval * 60,
\* left the passes of the wait loop still to come; history: runs the scrape
\* runs it began, slept the seconds slept since the last one, failed whether
\* the last one raised, seen whether it has found the event set.
NewThread(secs) ==
    [lpc |-> "test", total |-> secs, left |-> 0, runs |-> 0, slept |-> 0,
     failed |-> FALSE, seen |-> FALSE]

\* A thread whose loop() has returned.
DeadThread ==
    [lpc |-> "dead", total |-> 0, left |-> 0, runs |-> 0, slept |-> 0,
     failed |-> FALSE, seen |-> FALSE]

is_alive_UntilStopped(t) == t.lpc \notin {"end", "dead"}

\* Thread.is_alive(): from start() until loop() has returned.
is_alive(t) == t.lpc # "dead"

AfterRun_FailureLeaves(t, ok) ==
    IF ok
    THEN [t EXCEPT !.lpc = "wait", !.left = t.total, !.slept = 0, !.failed = FALSE]
    ELSE [t EXCEPT !.lpc = "exit", !.failed = TRUE]

\* The thread after the try statement of loop(): total = interval * 60 and
\* the wait loop is entered, whether run_batch returned or raised.
AfterRun(t, ok) ==
    [t EXCEPT !.lpc = "wait", !.left = t.total, !.slept = 0, !.failed = ~ok]

\* What no step of the scheduler tab changes.
SchedFrame ==
    UNCHANGED <<pc, caller, outcome, starvars, potvars, probs, odds, first, dbvars, scrapevars>>

\* App._on_sched_start, a click on the enabled start button: refused while
\* sched_thread is alive; refused without the index file; else the event is
\* cleared, the buttons are switched and a thread is started.
_on_sched_start(index_exists, secs) ==
    /\ btn_sched_start = "normal"
    /\ IF threads # << >> /\ is_alive(threads[Len(threads)])
       THEN /\ messagebox' = "running"
            /\ UNCHANGED <<threads, sched_stop, btn_sched_start, btn_sched_stop, s_log>>
       ELSE IF ~index_exists
       THEN /\ messagebox' = "no index"
            /\ UNCHANGED <<threads, sched_stop, btn_sched_start, btn_sched_stop, s_log>>
       ELSE /\ Len(threads) < MaxRuns
            /\ sched_stop' = FALSE
            /\ btn_sched_start' = "disabled"
            /\ btn_sched_stop' = "normal"
            /\ s_log' = "start"
            /\ threads' = Append(threads, NewThread(secs))
            /\ UNCHANGED messagebox
    /\ UNCHANGED jobs
    /\ SchedFrame

\* App._on_sched_stop, a click on the enabled stop button.
_on_sched_stop ==
    /\ btn_sched_stop = "normal"
    /\ sched_stop' = TRUE
    /\ UNCHANGED <<threads, btn_sched_start, btn_sched_stop, s_log, messagebox, jobs>>
    /\ SchedFrame

\* App._on_sched_once: a job thread is started if the index file is there.
_on_sched_once(index_exists) ==
    /\ jobs < MaxRuns
    /\ IF index_exists
       THEN /\ s_log' = "once"
            /\ jobs' = jobs + 1
            /\ UNCHANGED messagebox
       ELSE /\ messagebox' = "no index"
            /\ UNCHANGED <<s_log, jobs>>
    /\ UNCHANGED <<threads, sched_stop, btn_sched_start, btn_sched_stop>>
    /\ SchedFrame

\* App._sched_once_job returns: the run is logged as done or as an error.
OnceJob(ok) ==
    /\ jobs > 0
    /\ jobs' = jobs - 1
    /\ s_log' = IF ok THEN "done" ELSE "error"
    /\ UNCHANGED <<threads, sched_stop, btn_sched_start, btn_sched_stop, messagebox>>
    /\ SchedFrame

\* "while not self.sched_stop.is_set()" of thread i, and the log line of a
\* run that begins.
LoopTest(i) ==
    /\ threads[i].lpc = "test"
    /\ IF sched_stop
       THEN /\ threads' = [threads EXCEPT ![i].lpc = "exit", ![i].seen = TRUE]
            /\ UNCHANGED s_log
       ELSE /\ threads[i].runs < MaxRuns
            /\ threads' = [threads EXCEPT ![i].lpc = "run", ![i].runs = @ + 1]
            /\ s_log' = "run"
    /\ UNCHANGED <<sched_stop, btn_sched_start, btn_sched_stop, messagebox, jobs>>
    /\ SchedFrame

\* The try statement of thread i ends: run_batch has returned, or an
\* exception was caught and logged.
LoopRun(i, ok) ==
    /\ threads[i].lpc = "run"
    /\ threads' = [threads EXCEPT ![i] = AfterRun(@, ok)]
    /\ s_log' = IF ok THEN "done" ELSE "error"
    /\ UNCHANGED <<sched_stop, btn_sched_start, btn_sched_stop, messagebox, jobs>>
    /\ SchedFrame

\* One pass of "for _ in range(total)" of thread i: break if the event is
\* set, else sleep a second; or the end of the for statement.
LoopWait(i) ==
    /\ threads[i].lpc = "wait"
    /\ threads' = IF threads[i].left = 0
                  THEN [threads EXCEPT ![i].lpc = "test"]
                  ELSE IF sched_stop
                  THEN [threads EXCEPT ![i].lpc = "test", ![i].seen = TRUE]
                  ELSE [threads EXCEPT ![i].left = @ - 1, ![i].slept = @ + 1]
    /\ UNCHANGED <<sched_stop, btn_sched_start, btn_sched_stop, s_log, messagebox, jobs>>
    /\ SchedFrame

\* After the while statement of thread i: the log line and the two buttons.
LoopExit(i) ==
    /\ threads[i].lpc = "exit"
    /\ s_log' = "stopped"
    /\ btn_sched_start' = "normal"
    /\ btn_sched_stop' = "disabled"
    /\ threads' = [threads EXCEPT ![i].lpc = "end"]
    /\ UNCHANGED <<sched_stop, messagebox, jobs>>
    /\ SchedFrame

\* loop() of thread i returns.
LoopEnd(i) ==
    /\ threads[i].lpc = "end"
    /\ threads' = [threads EXCEPT ![i] = DeadThread]
    /\ UNCHANGED <<sched_stop, btn_sched_start, btn_sched_stop, s_log, messagebox, jobs>>
    /\ SchedFrame

\* A step of a scheduler thread.
LoopStep ==
    \E i \in 1 .. MaxRuns :
        /\ i <= Len(threads)
        /\ \/ LoopTest(i)
           \/ \E ok \in BOOLEAN : LoopRun(i, ok)
           \/ LoopWait(i)
           \/ LoopExit(i)
           \/ LoopEnd(i)

InitSched ==
    /\ SchedIdle
    /\ DbIdle
    /\ ScrapeIdle
    /\ probs = STAR_PROBS
    /\ odds = POTENTIAL_ODDS
    /\ first = NoCall
    /\ StarIdle
    /\ PotIdle
    /\ pc = "idle"
    /\ caller = "star"
    /\ outcome = NoOutcome

NextSched ==
    \/ \E index_exists \in BOOLEAN, secs \in 1 .. MaxWait : _on_sched_start(index_exists, secs)
    \/ _on_sched_stop
    \/ \E index_exists \in BOOLEAN : _on_sched_once(index_exists)
    \/ \E ok \in BOOLEAN : OnceJob(ok)
    \/ LoopStep

SpecSched == InitSched /\ [][NextSched]_vars

\* Every scheduler thread is scheduled again and again, and the scrape run
\* in progress ends.
SpecSchedLive == SpecSched /\ WF_vars(LoopStep)

----------------------------------------------------------------------------
(* SpecMono: one call of expected_star_cost, STAR_PROBS then changed at one *)
(* level, and the same call again against the same prices                   *)

\* STAR_PROBS[k]["succ"] += d; STAR_PROBS[k][src] -= d, in units of 1/Scale.
\* The table is changed once, between the remembered call and its repetition.
RaiseSucceed(k, src, d) ==
    /\ pc = "idle"
    /\ first # NoCall
    /\ probs = first.probs
    /\ probs[k + 1][src] >= d
    /\ probs' = [probs EXCEPT ![k + 1] = [@ EXCEPT !.succ = @ + d, ![src] = @ - d]]
    /\ UNCHANGED <<pc, caller, outcome, starvars, potvars, odds, first, envvars>>

\* The table in which level 12 always succeeds: STAR_PROBS after
\* RaiseSucceed has moved all of the drop and the boom of level 12 to its succ.
SureAtTwelve ==
    [STAR_PROBS EXCEPT ![13] = [succ |-> Scale, keep |-> 0, drop |-> 0, boom |-> 0]]

\* Either the table as written, a store with a price in 1..MaxPrice for every
\* level below MaxLevel and a target up to MaxLevel; or the table that is
\* sure at level 12, target 15, and a store whose one non-zero price is
\* the one of level 14.
InitMono ==
    /\ \/ /\ probs = STAR_PROBS
          /\ \E st \in [Levels -> PriceValues] : db = [stats |-> st, hist |-> st]
          /\ target_star \in 1 .. MaxLevel
          /\ start_star \in 0 .. (target_star - 1)
       \/ /\ probs = SureAtTwelve
          /\ \E st \in {[l \in 0 .. 14 |-> IF l = 14 THEN One ELSE Zero]} :
                 db = [stats |-> st, hist |-> st]
          /\ target_star = 15
          /\ start_star \in {0, 13}
    /\ odds = POTENTIAL_ODDS
    /\ first = NoCall
    /\ EnvIdle
    /\ pc = "idle"
    /\ caller = "star"
    /\ mant = 0
    /\ prices = << >>
    /\ A = << >>
    /\ b = << >>
    /\ s = 0
    /\ n = 0
    /\ M = << >>
    /\ col = 0
    /\ E = << >>
    /\ outcome = NoOutcome
    /\ PotIdle

NextMono ==
    \/ StarBegin(target_star, start_star)
    \/ StarLoad
    \/ StarBuildRow
    \/ SolveBegin
    \/ SolveStep
    \/ SolveReturn
    \/ StarReturn
    \/ Observe
    \/ \E k \in IF target_star <= MaxLevel THEN 0 .. (target_star - 1) ELSE {13, 14},
          src \in {"keep", "drop", "boom"}, d \in {25, 50} :
          RaiseSucceed(k, src, d)

SpecMono == InitMono /\ [][NextMono]_vars

----------------------------------------------------------------------------
(* SpecSave: save_sqlite calls on a new database file, then one call of    *)
(* expected_star_cost that loads its prices from the two tables            *)

MaxSaved == 3

\* An Optional[int]: << >> for None, <<v>> for v.
Some(v) == <<v>>

\* The DPRecord values run_batch builds: a star record of level f and a cube
\* record, with a close price or None, in either timeframe; ts_utc is set
\* when the record is saved.
DPRecords ==
    { [ts_utc |-> 0, item_id |-> "i", upgrade_type |-> 0, upgrade_subtype |-> "",
       from_star |-> Some(f), to_star |-> Some(f + 1), close_price |-> c, timeframe |-> tf] :
         f \in {0, 1}, c \in {NoFloat, One, RInt(2)}, tf \in {"20m", "1H"} }
    \cup
    { [ts_utc |-> 0, item_id |-> "i", upgrade_type |-> 1, upgrade_subtype |-> "red",
       from_star |-> << >>, to_star |-> << >>, close_price |-> c, timeframe |-> tf] :
         c \in {NoFloat, One, RInt(2)}, tf \in {"20m", "1H"} }

\* datetime.now(timezone.utc).isoformat(): later records carry later stamps.
Stamp(rows, base) == [i \in 1 .. Len(rows) |-> [rows[i] EXCEPT !.ts_utc = base + i]]

\* The conflict target of the upsert: from/to of None become -1.
StatsKey(r) ==
    [item_id |-> r.item_id, upgrade_type |-> r.upgrade_type,
     upgrade_subtype |-> r.upgrade_subtype,
     from_star |-> IF r.from_star # << >> THEN r.from_star[1] ELSE -1,
     to_star |-> IF r.to_star # << >> THEN r.to_star[1] ELSE -1,
     timeframe |-> r.timeframe]

\* One record of the loop of _upsert_stats, and the statement run for it:
\* INSERT ... ON CONFLICT (key) DO UPDATE.
UpsertRow_CountsNone(stats, r) ==
    LET k == StatsKey(r)
    IN  IF k \in DOMAIN stats
        THEN [stats EXCEPT ![k] =
                 [@ EXCEPT !.last_ts_utc = r.ts_utc, !.samples = @ + 1]]
        ELSE stats @@ (k :> [last_ts_utc |-> r.ts_utc, last_close |-> r.close_price,
                             all_time_high |-> r.close_price,
                             all_time_low |-> r.close_price, samples |-> 1])

UpsertRow_KeepsHigh(stats, r) ==
    LET k == StatsKey(r)
    IN  IF r.close_price = NoFloat
        THEN stats
        ELSE IF k \in DOMAIN stats
             THEN [stats EXCEPT ![k] =
                      [last_ts_utc |-> r.ts_utc, last_close |-> r.close_price,
                       all_time_high |-> @.all_time_high,
                       all_time_low |-> RMin(@.all_time_low, r.close_price),
                       samples |-> @.samples + 1]]
             ELSE stats @@ (k :> [last_ts_utc |-> r.ts_utc, last_close |-> r.close_price,
                                  all_time_high |-> r.close_price,
                                  all_time_low |-> r.close_price, samples |-> 1])

\* One record of the loop of _upsert_stats, and the statement run for it:
\* a record without a close price is skipped; INSERT ... ON CONFLICT (key)
\* DO UPDATE for the others.
UpsertRow(stats, r) ==
    LET k == StatsKey(r)
    IN  IF r.close_price = NoFloat
        THEN stats
        ELSE IF k \in DOMAIN stats
             THEN [stats EXCEPT ![k] =
                      [last_ts_utc |-> r.ts_utc,
                       last_close |-> r.close_price,
                       all_time_high |->
                           IF @.all_time_high = NoFloat THEN r.close_price
                           ELSE RMax(@.all_time_high, r.close_price),
                       all_time_low |->
                           IF @.all_time_low = NoFloat THEN r.close_price
                           ELSE RMin(@.all_time_low, r.close_price),
                       samples |-> @.samples + 1]]
             ELSE stats @@ (k :> [last_ts_utc |-> r.ts_utc, last_close |-> r.close_price,
                                  all_time_high |-> r.close_price,
                                  all_time_low |-> r.close_price, samples |-> 1])

\* _upsert_stats: the records in the order of the list.
RECURSIVE _upsert_stats(_, _)
_upsert_stats(stats, rows) ==
    IF rows = << >> THEN stats
    ELSE _upsert_stats(UpsertRow(stats, Head(rows)), Tail(rows))

\* The SELECT and the loop of load_star_prices: out[int(fs)] = float(last)
\* for the rows of the item, upgrade_type 0 and the timeframe whose
\* last_close is not NULL.  (A star record's to_star is its from_star + 1, so
\* one row has a given from_star.)
StatsPrices(stats, tf) ==
    LET rows == { k \in DOMAIN stats :
                     /\ k.item_id = "i" /\ k.upgrade_type = 0 /\ k.timeframe = tf
                     /\ stats[k].last_close # NoFloat }
    IN  [fs \in { k.from_star : k \in rows } |->
            stats[CHOOSE k \in rows : k.from_star = fs].last_close]

\* ORDER BY ts_utc DESC
RECURSIVE OrderByTsDesc(_)
OrderByTsDesc(rows) ==
    IF rows = {} THEN << >>
    ELSE LET r == CHOOSE x \in rows : \A y \in rows : y.ts_utc <= x.ts_utc
         IN  <<r>> \o OrderByTsDesc(rows \ {r})

\* The loop of _fallback_latest_any_tf_for_star over the fetched rows.
RECURSIVE BestOf(_, _)
BestOf(rows, best) ==
    IF rows = << >> THEN best
    ELSE LET r == Head(rows)
             fs == r.from_star
         IN  IF fs = << >>
             THEN BestOf(Tail(rows), best)
             ELSE IF fs[1] \notin DOMAIN best
                  THEN BestOf(Tail(rows), best @@ (fs[1] :> r))
                  ELSE IF r.ts_utc > best[fs[1]].ts_utc
                       THEN BestOf(Tail(rows), [best EXCEPT ![fs[1]] = r])
                       ELSE BestOf(Tail(rows), best)

\* The SELECT of _fallback_latest_any_tf_for_star and its result.
HistPrices(hist) ==
    LET rows == { hist[i] : i \in { j \in 1 .. Len(hist) :
                     /\ hist[j].item_id = "i" /\ hist[j].upgrade_type = 0
                     /\ hist[j].close_price # NoFloat } }
        best == BestOf(OrderByTsDesc(rows), << >>)
    IN  [fs \in DOMAIN best |-> best[fs].close_price]

\* The two tables as load_star_prices reads them for the item and timeframe.
StoreOf(hist, stats, tf) == [stats |-> StatsPrices(stats, tf), hist |-> HistPrices(hist)]

\* save_sqlite(db_path, rows): nothing for an empty list; else every record
\* is inserted into dynamic_pricing, then _upsert_stats.
save_sqlite(rows) ==
    /\ pc = "idle"
    /\ Len(dynamic_pricing) + Len(rows) <= MaxSaved
    /\ IF rows = << >>
       THEN UNCHANGED <<dynamic_pricing, price_stats, db>>
       ELSE LET saved == Stamp(rows, Len(dynamic_pricing))
            IN  /\ dynamic_pricing' = dynamic_pricing \o saved
                /\ price_stats' = _upsert_stats(price_stats, saved)
                /\ db' = StoreOf(dynamic_pricing', price_stats', timeframe)
    /\ UNCHANGED <<pc, caller, outcome, mant, target_star, start_star, prices, A, b, s, n, M,
                   col, E, potvars, probs, odds, first, timeframe, scrapevars, schedvars>>

\* A new database file; the estimate is asked for a timeframe that is scraped
\* or for one that never is.
InitSave ==
    /\ dynamic_pricing = << >>
    /\ price_stats = << >>
    /\ timeframe \in {"20m", "1D"}
    /\ db = StoreOf(dynamic_pricing, price_stats, timeframe)
    /\ pc = "idle"
    /\ caller = "star"
    /\ mant = 0
    /\ target_star = 0
    /\ start_star = 0
    /\ prices = << >>
    /\ A = << >>
    /\ b = << >>
    /\ s = 0
    /\ n = 0
    /\ M = << >>
    /\ col = 0
    /\ E = << >>
    /\ outcome = NoOutcome
    /\ PotIdle
    /\ probs = STAR_PROBS
    /\ odds = POTENTIAL_ODDS
    /\ first = NoCall
    /\ ScrapeIdle
    /\ SchedIdle

NextSave ==
    \/ \E r1 \in DPRecords : save_sqlite(<<r1>>)
    \/ \E r1 \in DPRecords, r2 \in DPRecords : save_sqlite(<<r1, r2>>)
    \/ StarBegin(2, 0)
    \/ StarLoad

SpecSave == InitSave /\ [][NextSave]_vars

----------------------------------------------------------------------------
(* Helpers of the properties *)

\* row[0]*vec[0] + ... + row[k-1]*vec[k-1]
RECURSIVE Dot(_, _, _)
Dot(row, vec, k) ==
    IF k = 0 THEN Zero
    ELSE RAdd(Dot(row, vec, k - 1), RMul(row[k - 1], vec[k - 1]))

\* mat . vec = rhs, for a dim x dim matrix
Solves(mat, vec, rhs, dim) ==
    /\ DOMAIN vec = 0 .. (dim - 1)
    /\ \A i \in 0 .. (dim - 1) : Dot(mat[i], vec, dim) = rhs[i]

\* The levels below T that the map pr has no price for.
Absent(T, pr) == { l \in 0 .. (T - 1) : l \notin DOMAIN pr }

StarDone == pc = "done" /\ caller = "star"

----------------------------------------------------------------------------
(* C1 *)

\* C1: for a valid target, expected_star_cost fails with the missing-price
\* error exactly when some level of 0..T-1 has no price; the error lists
\* exactly the absent levels of 0..T-1, each once and in ascending order; and
\* then no matrix, right-hand side or solution was built and no result
\* returned.
C1_MissingPriceExact ==
    (StarDone /\ target_star >= 1 /\ target_star <= 25) =>
        LET absent == Absent(target_star, load_star_prices(db))
            miss   == outcome.missing
        IN  /\ (outcome.kind = "MissingPrice") <=> (absent # {})
            /\ outcome.kind = "MissingPrice" =>
                  /\ { miss[k] : k \in 1 .. Len(miss) } = absent
                  /\ Len(miss) = Cardinality(absent)
                  /\ \A k \in 1 .. (Len(miss) - 1) : miss[k] < miss[k + 1]
                  /\ A = << >> /\ b = << >> /\ M = << >> /\ E = << >>
                  /\ outcome.e0 = NoFloat /\ outcome.estart = NoFloat

\* A call with target 3 that found prices for levels 0 and 2 only failed
\* listing level 1 alone.
C1_Witness ==
    /\ StarDone
    /\ outcome.kind = "MissingPrice"
    /\ target_star = 3
    /\ DOMAIN prices = {0, 2}
    /\ outcome.missing = << 1 >>

----------------------------------------------------------------------------
(* C2 *)

\* C2: expected_star_cost fails with the invalid-target error exactly for
\* the targets below 1 and above 25, whatever the start and the store hold,
\* and then without having looked up any price.
C2_InvalidTargetExact ==
    StarDone =>
        /\ (outcome.kind = "InvalidTarget") <=> (target_star < 1 \/ target_star > 25)
        /\ outcome.kind = "InvalidTarget" => prices = << >>

\* A call with target 26 against a store that misses level 0 failed with the
\* invalid-target error; so did one with target 0.
C2_Witness ==
    /\ StarDone
    /\ outcome.kind = "InvalidTarget"
    /\ 0 \notin DOMAIN db.stats
    /\ start_star = 1
    /\ target_star \in {0, 26}

----------------------------------------------------------------------------
(* C3 *)

\* The coefficient the equation of level l puts on column j, as a sum of the
\* four terms with their boundary conditions, from the table as written.
EquationEntry(T, l, j) ==
    LET row == STAR_PROBS[l + 1]
        t1  == IF j = l THEN RSub(One, Rat(row.keep, Scale)) ELSE Zero
        t2  == IF j = l + 1 /\ l + 1 < T THEN RNeg(Rat(row.succ, Scale)) ELSE Zero
        t3  == IF j = l - 1 /\ l >= 1 THEN RNeg(Rat(row.drop, Scale)) ELSE Zero
        t4  == IF j = 10 /\ 10 < T THEN RNeg(Rat(row.boom, Scale)) ELSE Zero
    IN  RAdd(RAdd(t1, t2), RAdd(t3, t4))

\* C3: every row l the loop has built is the equation of level l: each entry
\* A[l][j] is the sum of the terms falling on column j (none overwrites
\* another), every other entry is 0, and b[l] is the price of level l.
C3_RowIsEquation ==
    pc \in {"build", "call_solve"} =>
        \A l \in 0 .. (s - 1) :
            /\ \A j \in 0 .. (target_star - 1) :
                   A[l][j] = EquationEntry(target_star, l, j)
            /\ b[l] = prices[l]

\* With target 25 all rows are built, the rows 9, 10 and 11 among them, whose
\* terms meet in column 10.
C3_Witness ==
    /\ pc = "call_solve"
    /\ target_star = 25
    /\ s = 25
    /\ A[9][10] # Zero /\ A[10][10] # Zero /\ A[11][10] # Zero
    /\ A[24][10] # Zero /\ A[24][23] # Zero

----------------------------------------------------------------------------
(* C4 *)

\* C4: the cost from start of a returned result is the solved unknown
\* E[start] when 0 <= start < target, E being the solution of A.E = b, and
\* exactly 0 when start >= target.
C4_FromStart ==
    (StarDone /\ outcome.kind = "ok") =>
        /\ Solves(A, E, b, target_star)
        /\ (0 <= start_star /\ start_star < target_star) => outcome.estart = E[start_star]
        /\ start_star >= target_star => outcome.estart = Zero

\* A result for a start strictly between 0 and the target, where the cost
\* from start differs from the cost from 0.
C4_Witness ==
    /\ StarDone
    /\ outcome.kind = "ok"
    /\ 0 < start_star /\ start_star < target_star
    /\ outcome.estart = E[start_star]
    /\ outcome.estart # outcome.e0

----------------------------------------------------------------------------
(* C5 *)

\* Whether the loaded price map has a price for every level below T.
Covered(T, pr) == Absent(T, pr) = {}

\* C5 as stated: for a valid target and a start at or above it, the call
\* returns cost 0 whatever the price map holds and whichever levels it
\* covers.
C5_ZeroWhateverPrices ==
    (StarDone /\ target_star >= 1 /\ target_star <= 25 /\ start_star >= target_star) =>
        /\ outcome.kind = "ok"
        /\ outcome.estart = Zero

\* C5, amended: for a valid target and a start at or above it, the call
\* returns cost 0, whatever the values of the prices, when the price map
\* covers every level below the target; when a level below the target has no
\* price it fails with the missing-price error, as for any other start.
C5_ZeroWhenCovered ==
    (StarDone /\ target_star >= 1 /\ target_star <= 25 /\ start_star >= target_star) =>
        IF Covered(target_star, load_star_prices(db))
        THEN outcome.kind = "ok" /\ outcome.estart = Zero
        ELSE outcome.kind = "MissingPrice"

\* A result with cost 0 for start = target = 2, from prices that are not all
\* equal and give a positive cost from level 0.
C5_Witness ==
    /\ StarDone
    /\ outcome.kind = "ok"
    /\ target_star = 2
    /\ start_star = 2
    /\ prices[0] # prices[1]
    /\ outcome.estart = Zero
    /\ outcome.e0 # Zero

----------------------------------------------------------------------------
(* C6 *)

\* Level l can only succeed or stay: regress = reset = 0, stay + succeed = 1.
Geometric(l) ==
    LET row == STAR_PROBS[l + 1]
    IN  row.drop = 0 /\ row.boom = 0 /\ row.keep + row.succ = Scale

\* price[from]/succeed[from] + ... + price[T-1]/succeed[T-1]
RECURSIVE SumOfSteps(_, _, _)
SumOfSteps(from, T, pr) ==
    IF from >= T THEN Zero
    ELSE RAdd(RDiv(pr[from], Rat(STAR_PROBS[from + 1].succ, Scale)),
              SumOfSteps(from + 1, T, pr))

\* C6: the levels 0..10 of the table can only succeed or stay, and whenever
\* all levels below the target are such, the cost from a start below the
\* target is the sum of price/succeed over the levels start..target-1 (and
\* the cost from 0 the sum over 0..target-1).
C6_GeometricSum ==
    /\ \A l \in 0 .. 10 : Geometric(l)
    /\ (StarDone /\ outcome.kind = "ok" /\ \A l \in 0 .. (target_star - 1) : Geometric(l)) =>
          /\ outcome.e0 = SumOfSteps(0, target_star, prices)
          /\ (0 <= start_star /\ start_star < target_star) =>
                 outcome.estart = SumOfSteps(start_star, target_star, prices)

\* A result over two levels with different prices, from start 0.
C6_Witness ==
    /\ StarDone
    /\ outcome.kind = "ok"
    /\ target_star = 2
    /\ start_star = 0
    /\ prices[0] = RInt(1)
    /\ prices[1] = RInt(2)
    /\ outcome.estart = RAdd(Rat(Scale, 9975), Rat(2 * Scale, 9450))

----------------------------------------------------------------------------
(* C7 *)

\* succeed + stay + regress + reset of level l as the estimator reads it, in
\* units of 1/Scale.
RowSum(l) == P(l).succ + P(l).keep + P(l).drop + P(l).boom

NonNegative(l) == P(l).succ >= 0 /\ P(l).keep >= 0 /\ P(l).drop >= 0 /\ P(l).boom >= 0

----------------------------------------------------------------------------
(* C8 *)

\* Row l is one a validation of the table would reject.
Malformed(l) == RowSum(l) # Scale \/ ~NonNegative(l)

----------------------------------------------------------------------------
(* C9 *)

\* The coefficient of E[j] in the recurrence of level l with the reset term
\* kept whatever the target (rules (a) and (b) only), over the columns
\* 0..max(T-1, 10): the costs at and beyond the target are the zero unknowns.
FullRecurrenceEntry(T, l, j) ==
    LET row == P(l)
        t1  == IF j = l THEN RSub(One, Rat(row.keep, Scale)) ELSE Zero
        t2  == IF j = l + 1 /\ l + 1 < T THEN RNeg(Rat(row.succ, Scale)) ELSE Zero
        t3  == IF j = l - 1 /\ l >= 1 THEN RNeg(Rat(row.drop, Scale)) ELSE Zero
        t4  == IF j = 10 THEN RNeg(Rat(row.boom, Scale)) ELSE Zero
    IN  RAdd(RAdd(t1, t2), RAdd(t3, t4))

----------------------------------------------------------------------------
(* C10 *)

----------------------------------------------------------------------------
(* C11 *)

\* mat without row 0 and column j
Minor(mat, dim, j) ==
    [i \in 0 .. (dim - 2) |->
        [k \in 0 .. (dim - 2) |-> mat[i + 1][IF k < j THEN k ELSE k + 1]]]

\* The determinant of a dim x dim matrix, expanded along row 0, exactly.
RECURSIVE Det(_, _)
RECURSIVE DetTerms(_, _, _)
Det(mat, dim) == IF dim = 1 THEN mat[0][0] ELSE DetTerms(mat, dim, dim)

DetTerms(mat, dim, k) ==
    IF k = 0 THEN Zero
    ELSE LET j    == k - 1
             term == RMul(mat[0][j], Det(Minor(mat, dim, j), dim - 1))
         IN  RAdd(DetTerms(mat, dim, j), IF j % 2 = 0 THEN term ELSE RNeg(term))

SolveDone == pc = "done" /\ caller = "direct"

\* Every entry of column c in the rows c..dim-1 is below the threshold.
ColumnBelowThreshold(mat, c, dim) ==
    c < dim /\ \A r \in c .. (dim - 1) : BelowThreshold(mat[r][c])

----------------------------------------------------------------------------
(* C12 *)

PotDone == pc \in {"done", "totalled"} /\ caller = "potential"

\* The main ladder with valid tiers and the target not above the start.
MainNotAbove ==
    /\ InTiers(main_start_tier)
    /\ main_target_tier \in TargetTiers
    /\ TierIndex(main_target_tier) <= TierIndex(main_start_tier)

\* The bonus ladder with a supplied target, valid tiers and the target not
\* above the start.
BonusNotAbove ==
    /\ bonus_target_tier \notin {None, ""}
    /\ Capitalize(bonus_target_tier) \in TargetTiers
    /\ InTiers(bonus_start_tier)
    /\ TierIndex(Capitalize(bonus_target_tier)) <= TierIndex(bonus_start_tier)

\* C12, as the claim states it: in a result, a ladder whose target is not
\* above its start has cost 0 and an empty step list.
C12_ZeroWhenNotAbove ==
    (PotDone /\ outcome.kind = "ok") =>
        /\ MainNotAbove =>
               (outcome.main_cost = Zero /\ outcome.main_breakdown = << >>)
        /\ BonusNotAbove =>
               (outcome.bonus_cost = Zero /\ outcome.bonus_breakdown = << >>)

\* C12: a ladder whose target is not above its start has cost 0 and an empty
\* step list provided the ladder's tool prices are available (red and black
\* for main, bonus for bonus), and is absent otherwise; and a call whose main
\* target is not above the main start, and whose bonus target is not supplied
\* or not above the bonus start, does not raise.
C12_ZeroWhenNotAboveAndPriced ==
    PotDone =>
        /\ (outcome.kind = "ok" /\ MainNotAbove) =>
               IF price_red # NoFloat /\ price_black # NoFloat
               THEN outcome.main_cost = Zero /\ outcome.main_breakdown = << >>
               ELSE outcome.main_cost = NoFloat /\ outcome.main_breakdown = NoBreakdown
        /\ (outcome.kind = "ok" /\ BonusNotAbove) =>
               IF price_bonus # NoFloat
               THEN outcome.bonus_cost = Zero /\ outcome.bonus_breakdown = << >>
               ELSE outcome.bonus_cost = NoFloat /\ outcome.bonus_breakdown = NoBreakdown
        /\ (MainNotAbove /\ (bonus_target_tier \in {None, ""} \/ BonusNotAbove)) =>
               outcome.kind = "ok"

\* A result whose main target is strictly below the main start and whose
\* bonus target equals the bonus start, both ladders priced and costing 0.
C12_Witness ==
    /\ PotDone
    /\ outcome.kind = "ok"
    /\ MainNotAbove
    /\ TierIndex(main_target_tier) < TierIndex(main_start_tier)
    /\ BonusNotAbove
    /\ outcome.main_cost = Zero
    /\ outcome.bonus_cost = Zero
    /\ outcome.bonus_breakdown = << >>

----------------------------------------------------------------------------
(* C13 *)

\* price / probability of the entries 1..k of a breakdown, summed in order.
RECURSIVE SumOfEntries(_, _)
SumOfEntries(list, k) ==
    IF k = 0 THEN Zero
    ELSE RAdd(SumOfEntries(list, k - 1), RDiv(list[k][2], list[k][3]))

\* The number of adjacent tier pairs from the main start up to the main target.
MainPairs ==
    IF TierIndex(main_target_tier) > TierIndex(main_start_tier)
    THEN TierIndex(main_target_tier) - TierIndex(main_start_tier)
    ELSE 0

\* C13: with both main prices available, the main breakdown has one entry
\* per adjacent tier pair from start to target, in ladder order; each entry
\* names its pair and records the price and probability of the red or of the
\* black cube, whichever has price / probability equal to the minimum of the
\* two; and the main cost is the sum of those minima.
C13_MainIsSumOfMinima ==
    (PotDone /\ outcome.kind = "ok" /\ price_red # NoFloat /\ price_black # NoFloat) =>
        LET si   == TierIndex(main_start_tier)
            list == outcome.main_breakdown
        IN  /\ Len(list) = MainPairs
            /\ \A k \in 1 .. MainPairs :
                  LET to    == TIERS_ORDER[si + k + 1]
                      ev_r  == RDiv(price_red, Prob(POTENTIAL_ODDS.red[to]))
                      ev_b  == RDiv(price_black, Prob(POTENTIAL_ODDS.black[to]))
                  IN  /\ list[k][1] = <<TIERS_ORDER[si + k], to>>
                      /\ \/ /\ list[k][2] = price_red
                            /\ list[k][3] = Prob(POTENTIAL_ODDS.red[to])
                         \/ /\ list[k][2] = price_black
                            /\ list[k][3] = Prob(POTENTIAL_ODDS.black[to])
                      /\ RDiv(list[k][2], list[k][3]) = RMin(ev_r, ev_b)
            /\ outcome.main_cost = SumOfEntries(list, MainPairs)

\* A result over the whole ladder with red at 2 and black at 1 (as 1000 and
\* 500): the step to Epic is costed with the black cube at 0.15.
C13_Witness ==
    /\ PotDone
    /\ outcome.kind = "ok"
    /\ price_red = RInt(2)
    /\ price_black = RInt(1)
    /\ Len(outcome.main_breakdown) = 3
    /\ outcome.main_breakdown[1] = << <<"Rare", "Epic">>, RInt(1), Rat(15, 100) >>

----------------------------------------------------------------------------
(* C14 *)

\* The store has a price for the cube: a last_close of the timeframe or a
\* close of any timeframe.
CubeAvailable(k) ==
    cube.stats[CUBE_SUBTYPE[k]] # NoFloat \/ cube.hist[CUBE_SUBTYPE[k]] # NoFloat

QualityDone == pc \in {"done", "totalled"} /\ caller \in {"potential", "single"}

\* C14: if the store has no price for the red cube or none for the black
\* cube, the main cost and the main step list of the result of either
\* quality estimator are both absent, whatever the start and the target.
C14_MainAbsentWithoutBothPrices ==
    (QualityDone /\ outcome.kind = "ok" /\ ~(CubeAvailable("red") /\ CubeAvailable("black"))) =>
        /\ outcome.main_cost = NoFloat
        /\ outcome.main_breakdown = NoBreakdown

\* A result over the whole main ladder where the red price is known and the
\* black price is not: the main cost is absent.
C14_Witness ==
    /\ PotDone
    /\ outcome.kind = "ok"
    /\ CubeAvailable("red")
    /\ ~CubeAvailable("black")
    /\ main_start_tier = "Rare"
    /\ main_target_tier = "Legendary"
    /\ outcome.main_cost = NoFloat

----------------------------------------------------------------------------
(* C15 *)

\* No bonus target is supplied: the argument is None (its default) or empty.
NoBonusTarget == bonus_target_tier \in {None, ""}

\* The main tiers are in their domains.
MainTiersValid == main_target_tier \in TargetTiers /\ InTiers(main_start_tier)

\* The main cost and step list as a function of the store and of the main
\* tiers alone.
MainResultAlone ==
    LET pr    == load_cube_price(cube, CUBE_SUBTYPE.red)
        pb    == load_cube_price(cube, CUBE_SUBTYPE.black)
        steps == _steps_from(main_start_tier, main_target_tier)
    IN  IF pr # NoFloat /\ pb # NoFloat
        THEN MainLoop(steps, pr, pb, Len(steps))
        ELSE [cost |-> NoFloat, breakdown |-> NoBreakdown]

\* x if it is there, else nothing
OrZero(x) == IF x = NoFloat THEN Zero ELSE x

\* C15: with no bonus target supplied the call returns exactly when the main
\* tiers are valid, whatever the bonus price and the bonus start, and the
\* result's bonus cost, step list, start and target are absent; the main
\* cost and step list of every result are those determined by the store and
\* the main tiers alone, so they are the same under any bonus target; and the
\* caller's total is then the star cost plus the main cost, with no bonus part.
C15_NoBonusTargetNoBonus ==
    /\ (PotDone /\ NoBonusTarget) =>
           /\ outcome.kind = "ok" <=> MainTiersValid
           /\ outcome.kind = "ok" =>
                  /\ outcome.bonus_cost = NoFloat
                  /\ outcome.bonus_breakdown = NoBreakdown
                  /\ outcome.bonus_start_tier = None
                  /\ outcome.bonus_target_tier = None
    /\ (PotDone /\ outcome.kind = "ok") =>
           /\ outcome.main_cost = MainResultAlone.cost
           /\ outcome.main_breakdown = MainResultAlone.breakdown
    /\ (PotDone /\ pc = "totalled" /\ NoBonusTarget) =>
           /\ \A i \in 1 .. Len(total.parts) : total.parts[i] # "bonus"
           /\ total.total =
                  RAdd(OrZero(total.star_cost),
                       IF outcome.kind = "ok" THEN OrZero(outcome.main_cost) ELSE Zero)

\* A total formed after a call without bonus target, the store holding a
\* bonus price and the bonus start being no tier: star and main are the parts.
C15_Witness ==
    /\ PotDone
    /\ pc = "totalled"
    /\ bonus_target_tier = None
    /\ bonus_start_tier = "Mythic"
    /\ CubeAvailable("bonus")
    /\ outcome.kind = "ok"
    /\ RLess(Zero, outcome.main_cost)
    /\ total.parts = <<"star", "main">>
    /\ total.total = RAdd(total.star_cost, outcome.main_cost)

----------------------------------------------------------------------------
(* C16 *)

\* A tier parameter is outside its domain: the main target (after
\* capitalize()) or a supplied bonus target is none of Epic, Unique and
\* Legendary, or the main start or the bonus start is none of the four tiers.
TierOutsideDomain ==
    \/ main_target_tier \notin TargetTiers
    \/ (~NoBonusTarget /\ Capitalize(bonus_target_tier) \notin TargetTiers)
    \/ ~InTiers(main_start_tier)
    \/ ~InTiers(bonus_start_tier)

\* C16: a call of expected_potential_cost_dual with a tier parameter outside
\* its domain raises a ValueError about the tier and returns no result.
C16_InvalidTierRaises ==
    (PotDone /\ TierOutsideDomain) => outcome.kind \in {"InvalidTier", "NotInList"}

----------------------------------------------------------------------------
(* C17 *)

----------------------------------------------------------------------------
(* C18 *)

\* What a step leaves alone: the tables and the stores always, A and b
\* inside the solver, the loaded prices once loaded.
CallsChangeNothing ==
    /\ probs' = probs
    /\ odds' = odds
    /\ db' = db
    /\ cube' = cube
    /\ (pc \in {"call_solve", "pivot"}) => (A' = A /\ b' = b)
    /\ (pc \in {"build", "call_solve", "pivot", "solved"}) => (prices' = prices)
    /\ (pc \in {"main", "bonus"}) =>
           (/\ price_red' = price_red
            /\ price_black' = price_black
            /\ price_bonus' = price_bonus)

\* C18: no step of solve_linear_system changes its arguments A and b; no
\* step of expected_star_cost or expected_potential_cost_dual changes the
\* tables STAR_PROBS and POTENTIAL_ODDS or the stored prices, and none after
\* the load changes the loaded price map, whether the call returns or
\* raises; the price map of a result is the map as loaded.
C18_NoSideEffect ==
    /\ [][CallsChangeNothing]_vars
    /\ []((StarDone /\ outcome.kind = "ok") =>
              (outcome.step_costs = prices /\ prices = load_star_prices(db)))

\* expected_star_cost has returned from a system of two equations: the
\* solver's matrix M is reduced, and A and b are still the system as built.
C18_Witness ==
    /\ StarDone
    /\ outcome.kind = "ok"
    /\ n = 2
    /\ M[0][1] = Zero
    /\ A[0][1] # Zero
    /\ b[0] = prices[0]

----------------------------------------------------------------------------
(* C20 *)

----------------------------------------------------------------------------
(* C19 *)

\* u/v <= x/y for u, x >= 0 and v, y > 0, by the integer parts and then the
\* reciprocals of the fractional parts (no product is formed).
RECURSIVE FracNotAbove(_, _, _, _)
FracNotAbove(u, v, x, y) ==
    IF u \div v # x \div y THEN u \div v < x \div y
    ELSE IF u % v = 0 THEN TRUE
    ELSE IF x % y = 0 THEN FALSE
    ELSE FracNotAbove(y, x % y, v, u % v)

\* p <= q for two costs, neither negative.
NotAbove(p, q) == FracNotAbove(p.num, p.den, q.num, q.den)

\* The level whose succeed probability is higher than in the remembered call.
SucceedRaised(k) == probs[k + 1].succ > first.probs[k + 1].succ

\* C19: with prices fixed, raising the succeed probability of one level k at
\* the expense of that level's other outcomes never raises the expected cost
\* from start k or from any start below k, for every target above k.
C19_RaisingSucceedNeverCosts ==
    (/\ StarDone
     /\ outcome.kind = "ok"
     /\ first # NoCall
     /\ first.key = CallKey
     /\ first.outcome.kind = "ok") =>
        \A k \in 0 .. (target_star - 1) :
            SucceedRaised(k) =>
                /\ \A st \in 0 .. k : NotAbove(E[st], first.E[st])
                /\ start_star <= k => NotAbove(outcome.estart, first.outcome.estart)

----------------------------------------------------------------------------
(* C21 *)

\* Column c of mat is the c-th unit column.
UnitColumn(mat, c, dim) ==
    \A i \in 0 .. (dim - 1) : mat[i][c] = IF i = c THEN One ELSE Zero

\* Row r is the first row of c..dim-1 of greatest magnitude in column c.
FirstLargest(mat, c, dim, r) ==
    /\ \A q \in c .. (dim - 1) : ~RLess(RAbs(mat[r][c]), RAbs(mat[q][c]))
    /\ \A q \in c .. (r - 1) : RLess(RAbs(mat[q][c]), RAbs(mat[r][c]))

\* C21: in solve_linear_system the columns are taken in the order 0..n-1;
\* the step for column col takes the first row of col..n-1 whose entry in the
\* column is of greatest magnitude and brings it to position col, the row it
\* displaces going to the pivot's position; while the loop runs every column
\* below col is a unit column, and at the return the left n x n block is the
\* identity and the vector returned is the last column as it stands.
C21_ColumnsReducedInOrder ==
    /\ []((pc = "pivot" /\ caller = "direct") =>
            \A c \in 0 .. (col - 1) : UnitColumn(M, c, n))
    /\ []((SolveDone /\ outcome.kind = "ok") =>
            /\ \A c \in 0 .. (n - 1) : UnitColumn(M, c, n)
            /\ E = [i \in 0 .. (n - 1) |-> M[i][n]])
    /\ [][(pc = "pivot" /\ pc' = "pivot") =>
            /\ col' = col + 1
            /\ \E r \in col .. (n - 1) :
                  /\ FirstLargest(M, col, n, r)
                  /\ \A j \in col .. n : M'[col][j] = RDiv(M[r][j], M[r][col])
                  /\ \A j \in col .. n :
                        r # col => M'[r][j] = RSub(M[col][j], RMul(M[col][col], M'[col][j]))]_vars

\* A returned solution of a 2 x 2 system whose column 0 has two entries of
\* the same magnitude, neither zero, and whose rows both had to be reduced.
C21_Witness ==
    /\ SolveDone
    /\ outcome.kind = "ok"
    /\ n = 2
    /\ A[0][0] # Zero
    /\ RAbs(A[0][0]) = RAbs(A[1][0])
    /\ A[0][1] # Zero
    /\ UnitColumn(M, 0, n)
    /\ UnitColumn(M, 1, n)

----------------------------------------------------------------------------
(* C22 *)

----------------------------------------------------------------------------
(* C23 *)

\* The tiers from x to y, both included.
TiersBetween(x, y) ==
    { TIERS_ORDER[i + 1] : i \in TierIndex(x) .. TierIndex(y) }

\* What the main part and the bonus part of a call from x to y compute with
\* the prices of this call.
MainOf(x, y) ==
    MainLoop(_steps_from(x, y), price_red, price_black, Len(_steps_from(x, y)))

BonusOf(x, y) == BonusLoop(_steps_from(x, y), price_bonus, Len(_steps_from(x, y)))

\* A call whose tiers are all in TIERS_ORDER, start not above target on both
\* ladders, a bonus target supplied and the three prices in the store.
LadderCase ==
    /\ PotDone
    /\ bonus_target_tier # None
    /\ TierIndex(main_start_tier) <= TierIndex(main_target_tier)
    /\ TierIndex(bonus_start_tier) <= TierIndex(bonus_target_tier)
    /\ CubeAvailable("red")
    /\ CubeAvailable("black")
    /\ CubeAvailable("bonus")

\* C23, as the claim states it: for any tiers start <= mid <= target the call
\* gives a cost, as many steps as there are adjacent pairs from start to
\* target, and the cost is the cost from start to mid plus that from mid
\* to target.
C23_AdditiveAlongPath ==
    LadderCase =>
        /\ outcome.kind = "ok"
        /\ Len(outcome.main_breakdown) = TierIndex(main_target_tier) - TierIndex(main_start_tier)
        /\ \A mid \in TiersBetween(main_start_tier, main_target_tier) :
              outcome.main_cost =
                  Fl(RAdd(MainOf(main_start_tier, mid).cost, MainOf(mid, main_target_tier).cost))
        /\ \A mid \in TiersBetween(bonus_start_tier, bonus_target_tier) :
              outcome.bonus_cost =
                  Fl(RAdd(BonusOf(bonus_start_tier, mid).cost, BonusOf(mid, bonus_target_tier).cost))

\* C23: a call that returns, with the prices of a ladder available, has on
\* that ladder one step per adjacent pair of tiers from start up to target
\* (none if the target is not above the start), and for every mid from start
\* to target the step list is that from start to mid followed by that from
\* mid to target.  The cost is the sum of the two costs in exact arithmetic,
\* and in floats whenever at most one step lies between mid and target.
C23_StepsConcatenate ==
    (PotDone /\ outcome.kind = "ok") =>
        /\ (price_red # NoFloat /\ price_black # NoFloat) =>
              /\ Len(outcome.main_breakdown) =
                     IF TierIndex(main_target_tier) > TierIndex(main_start_tier)
                     THEN TierIndex(main_target_tier) - TierIndex(main_start_tier) ELSE 0
              /\ \A k \in 1 .. Len(outcome.main_breakdown) :
                     outcome.main_breakdown[k][1] =
                         <<TIERS_ORDER[TierIndex(main_start_tier) + k],
                           TIERS_ORDER[TierIndex(main_start_tier) + k + 1]>>
              /\ TierIndex(main_start_tier) <= TierIndex(main_target_tier) =>
                     \A mid \in TiersBetween(main_start_tier, main_target_tier) :
                        /\ outcome.main_breakdown =
                               MainOf(main_start_tier, mid).breakdown
                                   \o MainOf(mid, main_target_tier).breakdown
                        /\ (mant = 0 \/ Len(_steps_from(mid, main_target_tier)) <= 1) =>
                               outcome.main_cost =
                                   Fl(RAdd(MainOf(main_start_tier, mid).cost,
                                           MainOf(mid, main_target_tier).cost))
        /\ (bonus_target_tier # None /\ price_bonus # NoFloat) =>
              /\ Len(outcome.bonus_breakdown) =
                     IF TierIndex(bonus_target_tier) > TierIndex(bonus_start_tier)
                     THEN TierIndex(bonus_target_tier) - TierIndex(bonus_start_tier) ELSE 0
              /\ TierIndex(bonus_start_tier) <= TierIndex(bonus_target_tier) =>
                     \A mid \in TiersBetween(bonus_start_tier, bonus_target_tier) :
                        /\ outcome.bonus_breakdown =
                               BonusOf(bonus_start_tier, mid).breakdown
                                   \o BonusOf(mid, bonus_target_tier).breakdown
                        /\ (mant = 0 \/ Len(_steps_from(mid, bonus_target_tier)) <= 1) =>
                               outcome.bonus_cost =
                                   Fl(RAdd(BonusOf(bonus_start_tier, mid).cost,
                                           BonusOf(mid, bonus_target_tier).cost))

\* A float call from Rare to Legendary with three steps on the main ladder,
\* whose cost is not the float sum of the cost from Rare to Epic and the
\* cost from Epic to Legendary.
C23_Witness ==
    /\ PotDone
    /\ outcome.kind = "ok"
    /\ mant > 0
    /\ main_start_tier = "Rare"
    /\ main_target_tier = "Legendary"
    /\ Len(outcome.main_breakdown) = 3
    /\ outcome.main_cost # Fl(RAdd(MainOf("Rare", "Epic").cost, MainOf("Epic", "Legendary").cost))

----------------------------------------------------------------------------
(* C24 *)

\* The positions in dynamic_pricing of the saved records of key k that have
\* a close price.
ClosesOf(k) ==
    { i \in 1 .. Len(dynamic_pricing) :
         /\ StatsKey(dynamic_pricing[i]) = k
         /\ dynamic_pricing[i].close_price # NoFloat }

\* The latest of a non-empty set of positions.
Latest(I) == CHOOSE i \in I : \A j \in I : j <= i

\* C24: after any sequence of save_sqlite calls on a new database, price_stats
\* has one row for each key with a saved close price, and the row's samples
\* is the number of the key's saved records with a close price, its
\* all_time_high their greatest and its all_time_low their least close, its
\* last_close the close of the one saved last; so
\* all_time_low <= last_close <= all_time_high.
C24_StatsSummariseSaved ==
    /\ DOMAIN price_stats =
          { StatsKey(dynamic_pricing[i]) :
              i \in { j \in 1 .. Len(dynamic_pricing) :
                         dynamic_pricing[j].close_price # NoFloat } }
    /\ \A k \in DOMAIN price_stats :
          LET I == ClosesOf(k)
              row == price_stats[k]
          IN  /\ row.samples = Cardinality(I)
              /\ row.last_close = dynamic_pricing[Latest(I)].close_price
              /\ \E i \in I : row.all_time_high = dynamic_pricing[i].close_price
              /\ \A i \in I : ~RLess(row.all_time_high, dynamic_pricing[i].close_price)
              /\ \E i \in I : row.all_time_low = dynamic_pricing[i].close_price
              /\ \A i \in I : ~RLess(dynamic_pricing[i].close_price, row.all_time_low)
              /\ ~RLess(row.last_close, row.all_time_low)
              /\ ~RLess(row.all_time_high, row.last_close)

\* A key saved three times with a close price, the last below the highest.
C24_Witness ==
    \E k \in DOMAIN price_stats :
        /\ price_stats[k].samples = 3
        /\ RLess(price_stats[k].last_close, price_stats[k].all_time_high)

----------------------------------------------------------------------------
(* C25 *)

\* C25: a save_sqlite call whose records have no close price appends them to
\* dynamic_pricing and leaves price_stats as it was; and no row of
\* price_stats carries the timestamp of a record without a close price.
C25_NoneCloseLeavesStats ==
    /\ [](\A k \in DOMAIN price_stats :
             /\ price_stats[k].last_ts_utc \in 1 .. Len(dynamic_pricing)
             /\ dynamic_pricing[price_stats[k].last_ts_utc].close_price # NoFloat)
    /\ [][(/\ Len(dynamic_pricing') > Len(dynamic_pricing)
           /\ \A i \in (Len(dynamic_pricing) + 1) .. Len(dynamic_pricing') :
                 dynamic_pricing'[i].close_price = NoFloat)
          => /\ price_stats' = price_stats
             /\ SubSeq(dynamic_pricing', 1, Len(dynamic_pricing)) = dynamic_pricing]_vars

\* A record without a close price was saved for a key that has a row, and
\* another for a key that has none.
C25_Witness ==
    /\ \E i \in 1 .. Len(dynamic_pricing) :
          /\ dynamic_pricing[i].close_price = NoFloat
          /\ StatsKey(dynamic_pricing[i]) \in DOMAIN price_stats
          /\ price_stats[StatsKey(dynamic_pricing[i])].last_ts_utc < i
    /\ \E i \in 1 .. Len(dynamic_pricing) :
          /\ dynamic_pricing[i].close_price = NoFloat
          /\ StatsKey(dynamic_pricing[i]) \notin DOMAIN price_stats

----------------------------------------------------------------------------
(* C26 *)

\* Every read but the last found nothing the file counts as ready; the
\* function returns after a ready read or after max_read_tries reads.  anyOf:
\* the positions of the four values of which one must be present.
StopsAtFirst(anyOf) ==
    /\ \A i \in 1 .. (Len(reads) - 1) : \A j \in anyOf : reads[i][j] = None
    /\ at = "return" =>
          \/ Len(reads) = max_read_tries
          \/ \E j \in anyOf : reads[Len(reads)][j] # None

\* What the read loop does whatever counts as ready: at most max_read_tries
\* reads in one attempt; at most one reload, after read number reload_on_try,
\* that read having been followed by no return; the values returned are
\* those of the last read; at most StopAfterAttempt attempts, and the error
\* is re-raised only after the last.
ReadLoopBounded ==
    /\ Len(reads) <= max_read_tries
    /\ Len(reloads) <= 1
    /\ \A i \in 1 .. Len(reloads) :
          /\ reloads[i] = reload_on_try
          /\ reloads[i] <= Len(reads)
          /\ ~(at = "return" /\ Len(reads) = reloads[i] /\ Len(reads) < max_read_tries)
    /\ at = "return" => last_vals = reads[Len(reads)]
    /\ tries <= StopAfterAttempt
    /\ at = "raised" => tries = StopAfterAttempt

\* C26 as stated: in either file the loop stops at the first read in which
\* at least one of the four values is present.
C26_StopsWhenAnyValuePresent ==
    ReadLoopBounded /\ StopsAtFirst({1, 2, 3, 4})

\* C26: the loop of msu_dynamic_pricing_scraper.py stops at the first read in
\* which one of the four values is present, the loop of test.py at the first
\* read in which one of the three prices is present; both read at most
\* max_read_tries times in one attempt, reload at most once, after the
\* not-ready read number reload_on_try, return the values of the last read,
\* and are attempted at most four times.
C26_StopsWhenReady ==
    ReadLoopBounded /\ StopsAtFirst(IF script = "scraper" THEN {1, 2, 3, 4} ELSE {1, 2, 3})

\* test.py read a count without a price, reloaded, read on, and returned
\* the prices of a later read, in a second attempt.
C26_Witness ==
    /\ script = "test"
    /\ at = "return"
    /\ tries >= 2
    /\ Len(reads) >= 2
    /\ reads[1][4] # None
    /\ Len(reloads) = 1
    /\ last_vals[1] # None

----------------------------------------------------------------------------
(* C27 *)

\* expected_star_cost has loaded its prices.
Loaded == caller = "star" /\ pc \in {"build", "done"}

\* The rows of price_stats of the item, upgrade_type 0 and the call's
\* timeframe that have a last_close.
StatsRows ==
    { k \in DOMAIN price_stats :
         /\ k.item_id = "i" /\ k.upgrade_type = 0 /\ k.timeframe = timeframe
         /\ price_stats[k].last_close # NoFloat }

\* The positions of the star records of level l in dynamic_pricing that have
\* a close price, whatever their timeframe.
HistRows(l) ==
    { i \in 1 .. Len(dynamic_pricing) :
         /\ dynamic_pricing[i].upgrade_type = 0
         /\ dynamic_pricing[i].from_star = Some(l)
         /\ dynamic_pricing[i].close_price # NoFloat }

\* The levels history knows.
HistLevels == { l \in {0, 1} : HistRows(l) # {} }

\* C27: if price_stats has a last_close for the item and timeframe, the prices
\* loaded are those of price_stats and of no other level; only if it has none
\* are they, for each level of the history, the close price with the greatest
\* timestamp over all timeframes.
C27_FallbackAllOrNothing ==
    Loaded =>
        IF StatsRows # {}
        THEN /\ DOMAIN prices = { k.from_star : k \in StatsRows }
             /\ \A k \in StatsRows : prices[k.from_star] = price_stats[k].last_close
        ELSE /\ DOMAIN prices = HistLevels
             /\ \A l \in HistLevels :
                   \E i \in HistRows(l) :
                       /\ prices[l] = dynamic_pricing[i].close_price
                       /\ \A j \in HistRows(l) :
                             dynamic_pricing[j].ts_utc <= dynamic_pricing[i].ts_utc

\* price_stats has a price for the timeframe, and a level that only the
\* history knows is not among the prices loaded.
C27_Witness ==
    /\ Loaded
    /\ StatsRows # {}
    /\ \E l \in HistLevels : l \notin DOMAIN prices

----------------------------------------------------------------------------
(* C28 *)

\* The scheduler threads whose loop() has not returned.
Alive == { i \in 1 .. Len(threads) : threads[i].lpc # "dead" }

\* C28: at most one scheduler thread is alive at any time, and a step of the
\* start handler taken while one is alive starts no thread and leaves the
\* stop event as it is.
C28_OneSchedulerThread ==
    /\ [](Cardinality(Alive) <= 1)
    /\ [][(/\ Alive # {}
           /\ \E index_exists \in BOOLEAN, secs \in 1 .. MaxWait :
                 _on_sched_start(index_exists, secs))
          => /\ threads' = threads
             /\ sched_stop' = sched_stop
             /\ messagebox' = "running"]_vars

\* A start was refused while the thread that was asked to stop was still
\* alive, after an earlier thread had ended.
C28_Witness ==
    /\ messagebox = "running"
    /\ sched_stop
    /\ Len(threads) = 2
    /\ Alive = {2}

----------------------------------------------------------------------------
(* C29 *)

\* C29: a thread that has found the stop event set begins no further run; a
\* thread alive while the event is set ends, the start button being enabled
\* again when it has; a run that fails is logged and is followed, like one
\* that succeeds, by the wait loop over the whole interval, and a thread
\* begins a further run only after it has slept the whole interval.
C29_StopEndsLoopFailureDoesNot ==
    /\ [][\A i \in 1 .. Len(threads) :
             /\ threads[i].seen => threads'[i].runs <= threads[i].runs
             /\ (threads[i].lpc = "run" /\ threads'[i].lpc # "run")
                   => /\ threads'[i].lpc = "wait"
                      /\ threads'[i].left = threads[i].total
                      /\ threads'[i].failed => s_log' = "error"
             /\ (threads'[i].runs > threads[i].runs /\ threads[i].runs > 0)
                   => threads[i].slept = threads[i].total]_vars
    /\ \A i \in 1 .. MaxRuns :
          (i <= Len(threads) /\ sched_stop /\ threads[i].lpc # "dead")
              ~> (i <= Len(threads) /\ threads[i].lpc = "dead" /\ btn_sched_start = "normal")

\* The second thread has left its loop on the stop event, after a run that
\* failed and a second run one whole interval later.
C29_Witness ==
    /\ Len(threads) = 2
    /\ threads[2].lpc = "end"
    /\ threads[2].runs = 2
    /\ threads[2].failed
    /\ threads[2].seen
    /\ btn_sched_start = "normal"

----------------------------------------------------------------------------
(* C30 *)

\* The dual estimator has returned or raised after the remembered call of the
\* single estimator.
TwinDone == pc = "done" /\ caller = "potential" /\ first # NoCall

\* C30: expected_potential_cost(target, start) and
\* expected_potential_cost_dual with both starts start and both targets
\* target end alike: both raise the same error, or both return, with the same
\* main cost, main breakdown, bonus cost and bonus breakdown.
C30_SingleAgreesWithDual ==
    TwinDone =>
        /\ first.outcome.kind = outcome.kind
        /\ outcome.kind = "ok" =>
              /\ first.outcome.main_cost = outcome.main_cost
              /\ first.outcome.main_breakdown = outcome.main_breakdown
              /\ first.outcome.bonus_cost = outcome.bonus_cost
              /\ first.outcome.bonus_breakdown = outcome.bonus_breakdown

\* Both returned a main and a bonus cost over two steps or more, in floats.
C30_Witness ==
    /\ TwinDone
    /\ outcome.kind = "ok"
    /\ mant # 0
    /\ outcome.main_cost # NoFloat
    /\ outcome.bonus_cost # NoFloat
    /\ Len(outcome.bonus_breakdown) >= 2
    /\ Len(first.outcome.main_breakdown) >= 2

====
